---- MODULE Spec2Model ----
(***************************************************************************)
(* Model of assets/consolidate_design_metrics.py: the aggregation of the   *)
(* per-tool metric files of a Nextflow output directory into one record   *)
(* per (design, model), the composite score, the ranking and the CSV      *)
(* summary.                                                               *)
(*                                                                         *)
(* Strings that the code takes apart (directory names, file names,        *)
(* design and model ids) are sequences of symbols.  The symbol "_" is one *)
(* underscore; every other symbol is a maximal run of characters holding  *)
(* no underscore ("mpnn", "10", ".txt").  A path is a sequence of such    *)
(* names, as pathlib's Path.parts gives it.                               *)
(*                                                                         *)
(* A Python value is a tagged tuple: <<"none">>, <<"num", v>>, <<"str">>  *)
(* (a string that float() rejects), <<"id", name>>, <<"list", seq>>,      *)
(* <<"dict", function>>.  Floats are exact: metric values are integers,   *)
(* weights are in thousandths and a quotient is kept as <<"frac", n, d>>. *)
(***************************************************************************)
EXTENDS Integers, Sequences, FiniteSets, TLC

VARIABLES
    output_dir,     \* Path(output_dir).parts, the root given on the command line
    pc,             \* position in main(): "s1".."s6", "flatten", "rank", "csv", "md", "done", "crash"
    seen,           \* directory entries the loops have consumed so far
    all_metrics,    \* defaultdict(lambda: defaultdict(dict)), insertion-ordered
    log,            \* history: what each consumed artifact was resolved to
    flattened,      \* flattened_metrics, insertion-ordered
    ranked,         \* ranked_designs, a list of (full_id, metrics, composite_score)
    csv,            \* the file written by write_summary_report
    exists,         \* os.path.exists(output_dir)
    listed,         \* what os.listdir and glob.glob have returned so far, in order
    stderr,         \* the warnings printed to sys.stderr
    md,             \* the file written by write_markdown_report
    artifact,       \* the file (or directory) handed to a parser called on its own
    result,         \* what that parser has returned
    parsed          \* the mapping parse_prodigy_output has returned

vars == <<output_dir, pc, seen, all_metrics, log, flattened, ranked, csv,
          exists, listed, stderr, md, artifact, result, parsed>>

---------------------------------------------------------------------------
(* Bounds of the model *)

MaxArtifacts == 2       \* directory entries consumed in one run
MaxCands == 3           \* candidates handed to rank_designs in SpecRank
MaxLines == 2           \* lines, rows or records of a file handed to a parser
MaxJson == 2            \* JSON files of a directory handed to parse_boltzgen_predictions
MaxRows == 3            \* data rows of per_target_metrics_analyze.csv
MaxBlocks == 3          \* categories of an mmCIF file
MaxChains == 3          \* chains handed to identify_target_chain

---------------------------------------------------------------------------
(* Python values *)

None == <<"none">>
Num(v) == <<"num", v>>
Str == <<"str">>
Id(n) == <<"id", n>>
IsNum(x) == x[1] = "num"

EmptyMap == <<>>

\* dict.update(m2) on a plain metric mapping
Update(m1, m2) ==
    [k \in DOMAIN m1 \cup DOMAIN m2 |-> IF k \in DOMAIN m2 THEN m2[k] ELSE m1[k]]

\* An insertion-ordered dict: the keys in insertion order and the mapping.
EmptyDict == [keys |-> <<>>, val |-> EmptyMap]
Has(d, k) == k \in DOMAIN d.val
\* d[k] = v: a new key goes last, an existing key keeps its position
Put(d, k, v) ==
    [keys |-> IF Has(d, k) THEN d.keys ELSE Append(d.keys, k),
     val  |-> [x \in DOMAIN d.val \cup {k} |-> IF x = k THEN v ELSE d.val[x]]]

---------------------------------------------------------------------------
(* Strings as sequences of symbols *)

U == "_"
BOLTZGEN == <<"boltzgen">>
MODEL_IDS == <<U, "model", U, "ids">>
IPSAE_DIR == <<"ipsae", U, "scores">>
PRODIGY_DIR == <<"prodigy">>
FOLDSEEK_DIR == <<"foldseek">>
MPNN_OPTIMIZED == <<U, "mpnn", U, "optimized">>
IPSAE_SUFFIX == <<U, "10", U, "10", ".txt">>
PRODIGY_SUFFIX == <<U, "prodigy", U, "summary", ".csv">>
FOLDSEEK_SUFFIX == <<U, "foldseek", U, "summary", ".tsv">>
SCORES_SUFFIX == <<U, "scores", ".fa">>
SCORE == <<"score">>
GLOBAL_SCORE == <<"global", U, "score">>
SEQ_RECOVERY == <<"seq", U, "recovery">>
CONFIDENCE_SUFFIX == <<U, "confidence", ".json">>
Extensions == {".txt", ".csv", ".tsv", ".fa", ".json", ".cif"}
Digits == {"1", "2", "10"}

StartsWith(s, p) == Len(p) <= Len(s) /\ SubSeq(s, 1, Len(p)) = p
EndsWith(s, p) == Len(p) <= Len(s) /\ SubSeq(s, Len(s) - Len(p) + 1, Len(s)) = p

\* str.replace(p, ''): every occurrence of p is removed, left to right
RECURSIVE Replace(_, _)
Replace(s, p) ==
    IF s = <<>> THEN <<>>
    ELSE IF StartsWith(s, p) THEN Replace(SubSeq(s, Len(p) + 1, Len(s)), p)
    ELSE <<Head(s)>> \o Replace(Tail(s), p)

\* Path(f).stem: the file name without its last extension
Stem(f) ==
    IF f # <<>> /\ f[Len(f)] \in Extensions THEN SubSeq(f, 1, Len(f) - 1) ELSE f

\* s.rsplit('_', n)[0]: what is left of the n-th underscore from the right
RECURSIVE RSplitHead(_, _)
RSplitHead(s, n) ==
    IF n = 0 \/ ~(\E i \in 1..Len(s) : s[i] = U) THEN s
    ELSE LET i == CHOOSE j \in 1..Len(s) :
                      s[j] = U /\ \A k \in (j + 1)..Len(s) : s[k] # U
         IN  RSplitHead(SubSeq(s, 1, i - 1), n - 1)

\* re.match(r'(.+)_mpnn_\d+$', name): group(1), or <<>> when there is no match
MpnnSeqMatch(name) ==
    LET n == Len(name)
    IN  IF n >= 5 /\ name[n] \in Digits /\ name[n - 1] = U
           /\ name[n - 2] = "mpnn" /\ name[n - 3] = U
        THEN SubSeq(name, 1, n - 4)
        ELSE <<>>

\* list.index(x): the first position of x; 0 when x is not in the list
IndexOf(parts, x) ==
    IF \E i \in 1..Len(parts) : parts[i] = x
    THEN CHOOSE i \in 1..Len(parts) : parts[i] = x /\ \A j \in 1..(i - 1) : parts[j] # x
    ELSE 0

\* f"{design_id}_{key}"
FullId(design_id, key) == design_id \o <<U>> \o key

---------------------------------------------------------------------------
(* What each parser hands to the aggregation loop.  A file is "bad" (no    *)
(* recognised field: the parser returns its initial mapping), "broken"     *)
(* (reading it raises inside the parser's try block: a warning is printed  *)
(* and the initial mapping is returned) or "good" (every field is read,    *)
(* with the value v).                                                      *)

Bad == <<"bad">>
Broken == <<"broken">>
Good(v) == <<"good", v>>
Contents == {Bad, Good(1)}

ipsae_metrics(c) ==
    [ipsae_score |-> IF c[1] # "good" THEN None ELSE Num(c[2])]

prodigy_metrics(c) ==
    [buried_surface_area        |-> IF c[1] # "good" THEN None ELSE Num(c[2]),
     num_interface_contacts     |-> IF c[1] # "good" THEN None ELSE Num(c[2]),
     predicted_binding_affinity |-> IF c[1] # "good" THEN None ELSE Num(0 - c[2]),
     predicted_kd               |-> IF c[1] # "good" THEN None ELSE Num(c[2])]

foldseek_metrics(c) ==
    [foldseek_top_hit    |-> IF c[1] # "good" THEN None ELSE Str,
     foldseek_top_evalue |-> IF c[1] # "good" THEN None ELSE Num(c[2]),
     foldseek_top_bits   |-> IF c[1] # "good" THEN None ELSE Num(c[2]),
     foldseek_num_hits   |-> IF c[1] # "good" THEN Num(0) ELSE Num(1)]

mpnn_metrics(c) ==
    [mpnn_score         |-> IF c[1] # "good" THEN None ELSE Num(c[2]),
     mpnn_global_score  |-> IF c[1] # "good" THEN None ELSE Num(c[2]),
     mpnn_seq_recovery  |-> IF c[1] # "good" THEN None ELSE Num(c[2]),
     mpnn_num_sequences |-> IF c[1] # "good" THEN Num(0) ELSE Num(1)]

protenix_metrics(c) ==
    [protenix_plddt         |-> IF c[1] # "good" THEN None ELSE Num(c[2]),
     protenix_ptm           |-> IF c[1] # "good" THEN None ELSE Num(c[2]),
     protenix_iptm          |-> IF c[1] # "good" THEN None ELSE Num(c[2]),
     protenix_ranking_score |-> IF c[1] # "good" THEN None ELSE Num(c[2])]

\* aggregate_metrics_analyze.csv: its first data row, column -> cell; a cell is
\* <<"num", v>> (float() accepts it) or <<"str">>.  An empty file has no row.
boltz_metrics(row) ==
    [k \in {"aggregate_" \o c : c \in DOMAIN row} |->
        LET c == CHOOSE c \in DOMAIN row : "aggregate_" \o c = k IN row[c]]

\* per_target_metrics_analyze.csv with the one column "plddt": its numeric cells
RECURSIVE SeqSum(_)
SeqSum(s) == IF s = <<>> THEN 0 ELSE Head(s) + SeqSum(Tail(s))
SeqMin(s) == CHOOSE x \in {s[i] : i \in 1..Len(s)} : \A i \in 1..Len(s) : x <= s[i]
SeqMax(s) == CHOOSE x \in {s[i] : i \in 1..Len(s)} : \A i \in 1..Len(s) : x >= s[i]
Quot(n, d) == IF n % d = 0 THEN Num(n \div d) ELSE <<"frac", n, d>>

\* Python floats: + and / give the representable value nearest to the exact
\* result, a tie going to the even mantissa.  A binary64 value has 53
\* significant binary digits; the model keeps the rounding and carries
\* Precision digits, exponents from -MaxExp to MaxExp.
Precision == 5
MaxExp == 8
RoundHalfEven(a, b) ==
    LET q == a \div b
        r == a % b
    IN  IF 2 * r < b THEN q
        ELSE IF 2 * r > b THEN q + 1
        ELSE IF q % 2 = 0 THEN q ELSE q + 1
\* m / 2^k in lowest terms
RECURSIVE Dyadic(_, _)
Dyadic(m, k) ==
    IF k = 0 THEN Num(m)
    ELSE IF m % 2 = 0 THEN Dyadic(m \div 2, k - 1)
    ELSE <<"frac", m, 2^k>>
\* the float nearest to n / d, d > 0
FloatRound(n, d) ==
    IF n = 0 THEN Num(0)
    ELSE LET a == IF n < 0 THEN 0 - n ELSE n
             sign == IF n < 0 THEN 0 - 1 ELSE 1
             Fits(e) == IF e >= 0 THEN a < d * 2^(Precision + e)
                        ELSE a * 2^(0 - e) < d * 2^Precision
             e == CHOOSE x \in (0 - MaxExp)..MaxExp :
                      Fits(x) /\ \A y \in (0 - MaxExp)..(x - 1) : ~Fits(y)
             m == IF e >= 0 THEN RoundHalfEven(a, d * 2^e)
                  ELSE RoundHalfEven(a * 2^(0 - e), d)
         IN  IF e >= 0 THEN Num(sign * m * 2^e) ELSE Dyadic(sign * m, 0 - e)
\* sum(values): the additions from left to right, each rounded
RECURSIVE FloatSum(_, _)
FloatSum(acc, values) ==
    IF values = <<>> THEN acc
    ELSE FloatSum(FloatRound(acc + Head(values), 1)[2], Tail(values))
\* sum(values) / len(values)
Mean(values) == FloatRound(FloatSum(0, values), Len(values))

\* the three entries of one column of per_target_metrics_analyze.csv:
\* metrics[f'per_target_{key}_avg'], ..._min and ..._max
column_metrics(key, values) ==
    IF values = <<>> THEN EmptyMap
    ELSE ("per_target_" \o key \o "_avg") :> Mean(values)
         @@ ("per_target_" \o key \o "_min") :> Num(SeqMin(values))
         @@ ("per_target_" \o key \o "_max") :> Num(SeqMax(values))
target_metrics(values) == column_metrics("plddt", values)

---------------------------------------------------------------------------
(* The directory tree.  The run reads it entry by entry; which entries     *)
(* exist, and the order in which os.listdir and glob.glob return them, are *)
(* the inputs of the actions.                                              *)

Roots ==
    { << <<"/">>, <<"out">> >>,
      << <<"/">>, <<"w">>, <<"prodigy">>, <<"out">> >>,
      << <<"prodigy">>, <<"out">> >> }
DesignNames ==
    { <<"a">>, <<"a", U, "b">>, <<"a", U, "mpnn", U, "optimized", U, "b">> }
\* the design directories that hold ipsae_scores/, prodigy/ or foldseek/
ScoredDesigns == { <<"a">>, <<"a", U, "b">> }
ModelNames == { <<"c">>, <<"b", U, "c">>, BOLTZGEN }
\* a design directory: the first row of aggregate_metrics_analyze.csv, the
\* numeric cells of per_target_metrics_analyze.csv, the *.cif files
DesignDirs ==
    { [row |-> [plddt |-> Num(1), iptm |-> Str], pt |-> <<"missing">>,
       cif |-> <<"missing">>],
      [row |-> [plddt |-> Num(1), iptm |-> Str], pt |-> <<"cells", <<1, 3>> >>,
       cif |-> <<"files", << <<"c">> >> >>],
      [row |-> EmptyMap, pt |-> <<"missing">>, cif |-> <<"files", << <<"c">> >> >>] }
\* the files of one tool directory, in glob order
FileLists ==
    { <<>>, << [m |-> <<"c">>, c |-> Bad] >> }
    \cup { << [m |-> m, c |-> Good(1)] >> : m \in ModelNames }
    \cup { << [m |-> <<"c">>, c |-> Good(1)], [m |-> <<"b", U, "c">>, c |-> Good(2)] >> }
\* a directory matching *_mpnn_*: its sequence number, whether it holds a
\* protenix/ subdirectory, and the *_confidence.json files of that
ProtenixDirs ==
    { [n |-> "x", has_dir |-> TRUE, files |-> <<>>],
      [n |-> "1", has_dir |-> FALSE, files |-> <<>>] }
    \cup { [n |-> "1", has_dir |-> TRUE, files |-> << [m |-> m, c |-> Good(1)] >>]
            : m \in { <<"c">>, <<"c", U, "confidence", U, "b">> } }
\* one file of ipsae_scores/, prodigy/ or foldseek/
ToolFiles ==
    { [m |-> <<"c">>, c |-> c] : c \in Contents }
    \cup { [m |-> m, c |-> IF m = <<"b", U, "c">> THEN Good(2) ELSE Good(1)]
            : m \in ModelNames }
\* one of the IPSAE files may be unreadable
IpsaeToolFiles == ToolFiles \cup { [m |-> <<"c">>, c |-> Broken] }

---------------------------------------------------------------------------
(* aggregate_metrics_from_directories *)

\* for key, value in metrics.items(): all_metrics[design_id][key][k] = value
\* (both levels are defaultdicts: a first access creates the entry; an empty
\* mapping never reaches the assignment, so it creates nothing)
StoreMetrics(am, design_id, key, metrics) ==
    IF DOMAIN metrics = {} THEN am
    ELSE LET dd  == IF Has(am, design_id) THEN am.val[design_id] ELSE EmptyDict
             old == IF Has(dd, key) THEN dd.val[key][2] ELSE EmptyMap
         IN  Put(am, design_id, Put(dd, key, <<"dict", Update(old, metrics)>>))

\* all_metrics[design_id]['_model_ids'] = model_ids
StoreModelIds(am, design_id, model_ids) ==
    LET dd == IF Has(am, design_id) THEN am.val[design_id] ELSE EmptyDict
    IN  Put(am, design_id, Put(dd, MODEL_IDS, <<"list", model_ids>>))

\* model_ids of the *.cif files of intermediate_designs_inverse_folded
CifModelIds(files) == [i \in 1..Len(files) |-> Stem(files[i] \o <<".cif">>)]

\* the warnings the parsers print for the files of one directory: one for
\* each file whose reading raised
FileWarnings(step, d, files) ==
    {<<"parse", step, d, files[i].m>> : i \in {j \in 1..Len(files) : files[j].c = Broken}}

Entry(tool, design, model, design_id, model_id) ==
    [tool |-> tool, design |-> design, model |-> model,
     design_id |-> design_id, model_id |-> model_id]

\* STEP 1, one design directory holding aggregate_metrics_analyze.csv
Step1(d, row, pt, cif) ==
    /\ pc = "s1" /\ exists
    /\ <<"s1", d>> \notin seen
    /\ Cardinality(seen) < MaxArtifacts
    /\ LET am1 == StoreMetrics(all_metrics, d, BOLTZGEN, boltz_metrics(row))
           am2 == IF pt[1] = "missing" THEN am1
                  ELSE StoreMetrics(am1, d, BOLTZGEN, target_metrics(pt[2]))
           am3 == IF cif[1] = "missing" THEN am2
                  ELSE StoreModelIds(am2, d, CifModelIds(cif[2]))
       IN  all_metrics' = am3
    /\ seen' = seen \cup {<<"s1", d>>}
    /\ listed' = Append(listed, <<"s1", d, <<row, pt, cif>> >>)
    /\ stderr' = stderr
    /\ log' = log \cup {Entry("boltzgen", d, <<>>, d, <<>>)}
               \cup (IF cif[1] = "missing" THEN {}
                     ELSE {Entry("cif", d, cif[2][i], d, CifModelIds(cif[2])[i])
                            : i \in 1..Len(cif[2])})
    /\ UNCHANGED <<output_dir, pc, flattened, ranked, csv, exists, md, artifact, result, parsed>>

\* STEP 2, one directory matching *_mpnn_optimized and its *_scores.fa files
MpnnParent(dirname) == Replace(dirname, MPNN_OPTIMIZED)
MpnnModelId(fname) == Replace(Stem(fname), <<U, "scores">>)
RECURSIVE StoreMpnnFiles(_, _, _)
StoreMpnnFiles(am, mpnn_parent, files) ==
    IF files = <<>> THEN am
    ELSE StoreMpnnFiles(
            StoreMetrics(am, mpnn_parent, MpnnModelId(Head(files).m \o SCORES_SUFFIX),
                         mpnn_metrics(Head(files).c)),
            mpnn_parent, Tail(files))
Step2(d, files) ==
    /\ pc = "s2" /\ exists
    /\ <<"s2", d>> \notin seen
    /\ Cardinality(seen) < MaxArtifacts
    /\ LET mpnn_dir == d \o MPNN_OPTIMIZED
       IN  /\ all_metrics' = StoreMpnnFiles(all_metrics, MpnnParent(mpnn_dir), files)
           /\ log' = log \cup
                {Entry("mpnn", d, files[i].m, MpnnParent(mpnn_dir),
                       MpnnModelId(files[i].m \o SCORES_SUFFIX)) : i \in 1..Len(files)}
    /\ seen' = seen \cup {<<"s2", d>>}
    /\ listed' = Append(listed, <<"s2", d, <<files>> >>)
    /\ stderr' = stderr \cup FileWarnings("s2", d, files)
    /\ UNCHANGED <<output_dir, pc, flattened, ranked, csv, exists, md, artifact, result, parsed>>

\* STEP 3, one directory matching *_mpnn_* and not ending in _mpnn_optimized
ProtenixModelId(fname) == Replace(Stem(fname), <<U, "confidence">>)
ProtenixKey(protenix_name, fname) == protenix_name \o <<U>> \o ProtenixModelId(fname)
RECURSIVE StoreProtenixFiles(_, _, _, _)
StoreProtenixFiles(am, parent_design, protenix_name, files) ==
    IF files = <<>> THEN am
    ELSE StoreProtenixFiles(
            StoreMetrics(am, parent_design,
                         ProtenixKey(protenix_name, Head(files).m \o CONFIDENCE_SUFFIX),
                         protenix_metrics(Head(files).c)),
            parent_design, protenix_name, Tail(files))
Step3(d, n, has_dir, files) ==
    /\ pc = "s3" /\ exists
    /\ <<"s3", d, n>> \notin seen
    /\ Cardinality(seen) < MaxArtifacts
    /\ LET protenix_name == d \o <<U, "mpnn", U, n>>
           parent_design == MpnnSeqMatch(protenix_name)
       IN  /\ ~EndsWith(protenix_name, MPNN_OPTIMIZED)
           /\ IF parent_design = <<>> \/ ~has_dir
              THEN UNCHANGED <<all_metrics, log, stderr, parsed>>
              ELSE /\ stderr' = stderr \cup FileWarnings("s3", protenix_name, files)
                   /\ all_metrics' =
                        StoreProtenixFiles(all_metrics, parent_design, protenix_name, files)
                   /\ log' = log \cup
                        {Entry("protenix", d, files[i].m, parent_design,
                               ProtenixKey(protenix_name, files[i].m \o CONFIDENCE_SUFFIX))
                          : i \in 1..Len(files)}
    /\ seen' = seen \cup {<<"s3", d, n>>}
    /\ listed' = Append(listed, <<"s3", d, <<n, has_dir, files>> >>)
    /\ UNCHANGED <<output_dir, pc, flattened, ranked, csv, exists, md, artifact, result, parsed>>

\* STEPS 4-6: the file <output_dir>/<d>/<tool_dir>/<fname>; design_id is the
\* part before the first part equal to tool_dir
ToolPath(d, tool_dir, fname) == output_dir \o <<d, tool_dir, fname>>
DesignIdOf(path_parts, tool_dir) ==
    LET idx == IndexOf(path_parts, tool_dir)
    IN  IF idx > 1 THEN path_parts[idx - 1] ELSE <<>>
IpsaeModelId(fname) == RSplitHead(Stem(fname), 2)
ProdigyModelId(fname) == Replace(Stem(fname), <<U, "prodigy", U, "summary">>)
FoldseekModelId(fname) == Replace(Stem(fname), <<U, "foldseek", U, "summary">>)

StepFile(step, tool, tool_dir, d, m, c, fname, model_id, metrics) ==
    /\ pc = step /\ exists
    /\ <<step, d, m>> \notin seen
    /\ Cardinality(seen) < MaxArtifacts
    /\ LET design_id == DesignIdOf(ToolPath(d, tool_dir, fname), tool_dir)
       IN  IF design_id = <<>>
           THEN UNCHANGED <<all_metrics, log, stderr, parsed>>
           ELSE /\ all_metrics' = StoreMetrics(all_metrics, design_id, model_id, metrics)
                /\ stderr' = stderr \cup FileWarnings(step, d, << [m |-> m, c |-> c] >>)
                /\ log' = log \cup {Entry(tool, d, m, design_id, model_id)}
    /\ seen' = seen \cup {<<step, d, m>>}
    /\ listed' = Append(listed, <<step, d, <<m, c>> >>)
    /\ UNCHANGED <<output_dir, pc, flattened, ranked, csv, exists, md, artifact, result, parsed>>

Step4(d, m, c) ==
    StepFile("s4", "ipsae", IPSAE_DIR, d, m, c, m \o IPSAE_SUFFIX,
             IpsaeModelId(m \o IPSAE_SUFFIX), ipsae_metrics(c))
Step5(d, m, c) ==
    StepFile("s5", "prodigy", PRODIGY_DIR, d, m, c, m \o PRODIGY_SUFFIX,
             ProdigyModelId(m \o PRODIGY_SUFFIX), prodigy_metrics(c))
Step6(d, m, c) ==
    StepFile("s6", "foldseek", FOLDSEEK_DIR, d, m, c, m \o FOLDSEEK_SUFFIX,
             FoldseekModelId(m \o FOLDSEEK_SUFFIX), foldseek_metrics(c))

\* a loop has consumed what its listing returned: on to the next step
NextOf(p) ==
    CASE p = "s1" -> "s2" [] p = "s2" -> "s3" [] p = "s3" -> "s4"
      [] p = "s4" -> "s5" [] p = "s5" -> "s6" [] p = "s6" -> "flatten"
EndLoop ==
    /\ pc \in {"s1", "s2", "s3", "s4", "s5", "s6"}
    /\ pc' = NextOf(pc)
    /\ UNCHANGED <<output_dir, seen, all_metrics, log, flattened, ranked, csv,
                   exists, listed, stderr, md, artifact, result, parsed>>

\* STEP 7
\* (variant: the Boltzgen base metrics are applied last and win on a shared key)
FlatEntryDesignWins(boltzgen_metrics, value, design_id, key) ==
    Update(Update(value, boltzgen_metrics),
           [design_id |-> Id(design_id), model_id |-> Id(key)])
FlatEntry(boltzgen_metrics, value, design_id, key) ==
    Update(Update(boltzgen_metrics, value),
           [design_id |-> Id(design_id), model_id |-> Id(key)])
RECURSIVE FlattenKeys(_, _, _, _)
FlattenKeys(flat, design_id, design_data, i) ==
    IF i > Len(design_data.keys) THEN flat
    ELSE LET key == design_data.keys[i]
             value == design_data.val[key]
             boltzgen_metrics == IF Has(design_data, BOLTZGEN)
                                 THEN design_data.val[BOLTZGEN][2] ELSE EmptyMap
         IN  IF key \in {BOLTZGEN, MODEL_IDS} \/ value[1] # "dict"
             THEN FlattenKeys(flat, design_id, design_data, i + 1)
             ELSE FlattenKeys(
                    Put(flat, FullId(design_id, key),
                        FlatEntry(boltzgen_metrics, value[2], design_id, key)),
                    design_id, design_data, i + 1)
RECURSIVE FlattenDesigns(_, _, _)
FlattenDesigns(flat, am, i) ==
    IF i > Len(am.keys) THEN flat
    ELSE FlattenDesigns(FlattenKeys(flat, am.keys[i], am.val[am.keys[i]], 1), am, i + 1)
Flatten ==
    /\ pc = "flatten"
    /\ flattened' = FlattenDesigns(EmptyDict, all_metrics, 1)
    /\ pc' = "rank"
    /\ UNCHANGED <<output_dir, seen, all_metrics, log, ranked, csv,
                   exists, listed, stderr, md, artifact, result, parsed>>

---------------------------------------------------------------------------
(* calculate_composite_score and rank_designs *)

\* the default weight table, in thousandths, and its keys in dict order
Weights ==
    [aggregate_plddt |-> 150, aggregate_ptm |-> 1000, aggregate_iptm |-> 1000,
     ipsae_score |-> 0 - 2000,
     predicted_binding_affinity |-> 0 - 500, buried_surface_area |-> 1,
     num_interface_contacts |-> 50,
     mpnn_score |-> 0 - 500, mpnn_seq_recovery |-> 500,
     protenix_plddt |-> 10, protenix_ptm |-> 500, protenix_iptm |-> 500]
WeightOrder ==
    <<"aggregate_plddt", "aggregate_ptm", "aggregate_iptm", "ipsae_score",
      "predicted_binding_affinity", "buried_surface_area", "num_interface_contacts",
      "mpnn_score", "mpnn_seq_recovery", "protenix_plddt", "protenix_ptm",
      "protenix_iptm">>

\* the loop over weights.items(): acc is (score, count, component_scores);
\* float() raises on a string that is no number and the metric is passed over
RECURSIVE ScoreLoop(_, _, _)
ScoreLoop(metrics, i, acc) ==
    IF i > Len(WeightOrder) THEN acc
    ELSE LET metric == WeightOrder[i]
         IN  IF metric \in DOMAIN metrics /\ metrics[metric] # None
                /\ IsNum(metrics[metric])
             THEN LET component_contribution == Weights[metric] * metrics[metric][2]
                  IN  ScoreLoop(metrics, i + 1,
                                [score |-> acc.score + component_contribution,
                                 count |-> acc.count + 1,
                                 components |-> Update(acc.components,
                                     [k \in {metric} |-> Num(component_contribution)])])
             ELSE ScoreLoop(metrics, i + 1, acc)

\* (variants: division by the size of the weight table; no division)
NormalizeByTable(score, count) == <<"score", score, Len(WeightOrder)>>
NormalizeRaw(score, count) == <<"score", score, 1>>
\* score / count when count > 0, else the 0.0 it started from: <<"score", n, d>>
\* stands for n / (1000 d)
Normalize(score, count) ==
    IF count > 0 THEN <<"score", score, count>> ELSE <<"score", score, 1>>

\* (variant: each contributing metric is overwritten with its contribution)
calculate_composite_score_InPlace(metrics) ==
    LET acc == ScoreLoop(metrics, 1, [score |-> 0, count |-> 0, components |-> EmptyMap])
    IN  [score |-> Normalize(acc.score, acc.count),
         metrics |-> Update(Update(metrics, acc.components),
                        [k \in {"_score_components", "_metrics_used"} |->
                            IF k = "_metrics_used" THEN Num(acc.count)
                            ELSE <<"dict", acc.components>>])]
\* the pair (returned score, metrics as the call leaves it)
calculate_composite_score(metrics) ==
    LET acc == ScoreLoop(metrics, 1, [score |-> 0, count |-> 0, components |-> EmptyMap])
    IN  [score |-> Normalize(acc.score, acc.count),
         metrics |-> Update(metrics,
                        [k \in {"_score_components", "_metrics_used"} |->
                            IF k = "_metrics_used" THEN Num(acc.count)
                            ELSE <<"dict", acc.components>>])]

ScoreLess(a, b) == a[2] * b[3] < b[2] * a[3]

\* (variant: x goes in front of the elements it ties with)
InsertDescUnstable(sorted, x) ==
    LET behind == {i \in 1..Len(sorted) : ScoreLess(x[3], sorted[i][3])}
        n == Cardinality(behind)
    IN  SubSeq(sorted, 1, n) \o <<x>> \o SubSeq(sorted, n + 1, Len(sorted))
\* list.sort(key=lambda x: x[2], reverse=True): a stable sort; x goes behind
\* every element that does not compare below it
InsertDesc(sorted, x) ==
    LET behind == {i \in 1..Len(sorted) : ~ScoreLess(sorted[i][3], x[3])}
        n == Cardinality(behind)
    IN  SubSeq(sorted, 1, n) \o <<x>> \o SubSeq(sorted, n + 1, Len(sorted))
RECURSIVE SortDesc(_, _)
SortDesc(sorted, rest) ==
    IF rest = <<>> THEN sorted ELSE SortDesc(InsertDesc(sorted, Head(rest)), Tail(rest))

\* the entry rank_designs appends for one item of all_metrics.items()
RankedItem(design_id, metrics) ==
    LET r == calculate_composite_score(metrics)
    IN  <<design_id,
          Update(r.metrics, [k \in {"composite_score"} |-> r.score]),
          r.score>>

\* rank_designs(all_metrics); the metrics dicts are scored in place, so the
\* caller's mapping changes with them
Rank ==
    /\ pc = "rank"
    /\ LET items == [i \in 1..Len(flattened.keys) |->
                        RankedItem(flattened.keys[i], flattened.val[flattened.keys[i]])]
       IN  /\ ranked' = SortDesc(<<>>, items)
           /\ flattened' = [flattened EXCEPT !.val =
                               [k \in DOMAIN flattened.val |->
                                   items[CHOOSE i \in 1..Len(items) : items[i][1] = k][2]]]
    /\ pc' = "csv"
    /\ UNCHANGED <<output_dir, seen, all_metrics, log, csv,
                   exists, listed, stderr, md, artifact, result, parsed>>

---------------------------------------------------------------------------
(* write_summary_report *)

priority_columns ==
    <<"design_id", "model_id", "rank", "composite_score", "_metrics_used",
      "aggregate_plddt", "aggregate_ptm", "aggregate_iptm", "aggregate_pae_interaction",
      "mpnn_score", "mpnn_global_score", "mpnn_seq_recovery", "mpnn_num_sequences",
      "protenix_plddt", "protenix_ptm", "protenix_iptm", "protenix_ranking_score",
      "ipsae_score",
      "predicted_binding_affinity", "predicted_kd", "buried_surface_area",
      "num_interface_contacts",
      "foldseek_top_hit", "foldseek_top_evalue", "foldseek_top_bits",
      "foldseek_num_hits">>
Range(s) == {s[i] : i \in 1..Len(s)}

\* the keys outside priority_columns that a run of the model can produce, in
\* the order Python's sorted() gives strings
LexOrder ==
    <<"_score_components", "per_target_plddt_avg", "per_target_plddt_max",
      "per_target_plddt_min">>
RECURSIVE Sorted(_, _)
Sorted(keys, i) ==
    IF i > Len(LexOrder) THEN <<>>
    ELSE (IF LexOrder[i] \in keys THEN <<LexOrder[i]>> ELSE <<>>) \o Sorted(keys, i + 1)

\* what csv.DictWriter writes for one row: '' for a missing key and for None
Empty == <<"empty">>
\* (variant: every falsy value, 0 included, is written as '')
WriteRowFalsy(fieldnames, row) ==
    [c \in Range(fieldnames) |->
        IF c \in DOMAIN row /\ row[c] \notin {None, Num(0)} THEN row[c] ELSE Empty]
WriteRow(fieldnames, row) ==
    [c \in Range(fieldnames) |->
        IF c \in DOMAIN row /\ row[c] # None THEN row[c] ELSE Empty]

SummaryRows(rd, fieldnames) ==
    [i \in 1..Len(rd) |->
        WriteRow(fieldnames,
                 Update([design_id |-> Id(rd[i][1]), rank |-> Num(i)], rd[i][2]))]

\* (variant: only the priority columns are written, extrasaction='ignore')
write_summary_report_PriorityOnly(rd) ==
    IF rd = <<>>
    THEN [header |-> <<"design_id", "rank", "composite_score">>, rows |-> <<>>]
    ELSE [header |-> priority_columns, rows |-> SummaryRows(rd, priority_columns)]
write_summary_report(rd) ==
    IF rd = <<>>
    THEN [header |-> <<"design_id", "rank", "composite_score">>, rows |-> <<>>]
    ELSE LET all_metrics_keys == UNION {DOMAIN rd[i][2] : i \in 1..Len(rd)}
             other_columns == Sorted(all_metrics_keys \ Range(priority_columns), 1)
             fieldnames == priority_columns \o other_columns
         IN  [header |-> fieldnames, rows |-> SummaryRows(rd, fieldnames)]

\* main() after rank_designs; "md" is the call of write_markdown_report
WriteSummary ==
    /\ pc = "csv"
    /\ csv' = write_summary_report(ranked)
    /\ stderr' = IF ranked = <<>> THEN stderr \cup {<<"no designs">>} ELSE stderr
    /\ pc' = "md"
    /\ UNCHANGED <<output_dir, seen, all_metrics, log, flattened, ranked,
                   exists, listed, md, artifact, result, parsed>>

---------------------------------------------------------------------------
(* write_markdown_report *)

top_n == 10
\* the values of --top_n the report is written with
TopNs == {1, top_n}
\* the metrics of the top table and of the recommendations
TableKeys ==
    {"aggregate_plddt", "aggregate_iptm", "ipsae_score",
     "predicted_binding_affinity", "mpnn_score", "protenix_plddt"}
RecommendationKeys ==
    {"aggregate_plddt", "aggregate_iptm", "ipsae_score", "mpnn_score",
     "mpnn_seq_recovery", "protenix_plddt", "predicted_binding_affinity",
     "buried_surface_area"}
StatKeys == {"ipsae_score", "predicted_binding_affinity", "buried_surface_area"}

\* `if metrics.get(k)`: a missing key, None and 0 are falsy; a string kept from
\* a CSV cell is not empty here, so it is truthy
Falsy(metrics, k) == k \notin DOMAIN metrics \/ metrics[k] \in {None, Num(0)}

\* f"{metrics.get(k, 0):.1f}" if metrics.get(k) else "N/A"; the format raises
\* ValueError on a string
NA == <<"N/A">>
Raised == <<"raised">>
Cell(metrics, k) ==
    IF Falsy(metrics, k) THEN NA
    ELSE IF IsNum(metrics[k]) THEN metrics[k] ELSE Raised

MdRow(rd, i) ==
    LET metrics == rd[i][2]
    IN  [rank   |-> i,
         design |-> IF "design_id" \in DOMAIN metrics THEN metrics["design_id"]
                    ELSE Id(rd[i][1]),
         model  |-> IF "model_id" \in DOMAIN metrics THEN metrics["model_id"] ELSE Str,
         score  |-> rd[i][3],
         cells  |-> [k \in TableKeys |-> Cell(metrics, k)]]
RowRaises(rd, i) == \E k \in TableKeys : Cell(rd[i][2], k) = Raised

\* (variant: the list holds the value of every candidate, None counted as 0)
FamilyStatsAll(rd, k) ==
    LET idx == {i \in 1..Len(rd) : k \in DOMAIN rd[i][2] /\ rd[i][2][k] # None}
        vals == {IF i \in idx THEN rd[i][2][k][2] ELSE 0 : i \in 1..Len(rd)}
    IN  [n   |-> Len(rd),
         min |-> CHOOSE x \in vals : \A y \in vals : x <= y,
         max |-> CHOOSE x \in vals : \A y \in vals : x >= y,
         sum |-> SeqSum([j \in 1..Len(rd) |->
                           IF j \in idx THEN rd[j][2][k][2] ELSE 0])]
\* [m.get(k) for _, m, _ in ranked_designs if m.get(k) is not None] and its
\* count, min, max and sum; <<>> when the list is empty and nothing is written
FamilyStats(rd, k) ==
    LET idx == {i \in 1..Len(rd) : k \in DOMAIN rd[i][2] /\ rd[i][2][k] # None}
        vals == {rd[i][2][k][2] : i \in idx}
    IN  IF idx = {} THEN <<>>
        ELSE [n   |-> Cardinality(idx),
              min |-> CHOOSE x \in vals : \A y \in vals : x <= y,
              max |-> CHOOSE x \in vals : \A y \in vals : x >= y,
              sum |-> SeqSum([j \in 1..Len(rd) |->
                                IF j \in idx THEN rd[j][2][k][2] ELSE 0])]

NoMd ==
    [written |-> FALSE, total |-> 0, no_designs |-> FALSE, stats |-> <<>>,
     rows |-> <<>>, assessed |-> {}, complete |-> FALSE, top_n |-> top_n]

\* the file as the call leaves it; complete is FALSE when a format raised and
\* the exception left the function with the file written up to that row
MarkdownBody(rd, n) ==
         LET shown == IF Len(rd) < n THEN Len(rd) ELSE n
             bad == {i \in 1..shown : RowRaises(rd, i)}
             stop == IF bad = {} THEN shown
                     ELSE (CHOOSE i \in bad : \A j \in bad : i <= j) - 1
             best_metrics == rd[1][2]
             truthy == {k \in RecommendationKeys : ~Falsy(best_metrics, k)}
             ok == bad = {} /\ \A k \in truthy : IsNum(best_metrics[k])
         IN  [written |-> TRUE, total |-> Len(rd), no_designs |-> FALSE,
              stats |-> [k \in StatKeys |-> FamilyStats(rd, k)],
              rows |-> [i \in 1..stop |-> MdRow(rd, i)],
              assessed |-> IF ok THEN truthy ELSE {},
              complete |-> ok, top_n |-> n]
\* (variant: no test for an empty list; ranked_designs[0] raises)
write_markdown_report_NoEarlyReturn(rd, n) ==
    IF rd = <<>>
    THEN [written |-> TRUE, total |-> 0, no_designs |-> FALSE, stats |-> <<>>,
          rows |-> <<>>, assessed |-> {}, complete |-> FALSE, top_n |-> n]
    ELSE MarkdownBody(rd, n)
\* ranked_designs[:top_n] is the slice of a count that is not negative
write_markdown_report(rd, n) ==
    IF rd = <<>>
    THEN [written |-> TRUE, total |-> 0, no_designs |-> TRUE, stats |-> <<>>,
          rows |-> <<>>, assessed |-> {}, complete |-> TRUE, top_n |-> n]
    ELSE MarkdownBody(rd, n)

\* main(): the call of write_markdown_report and the closing prints; an
\* exception of the call is not caught and ends the run with a traceback
WriteMarkdown ==
    /\ pc = "md"
    /\ \E n \in TopNs : md' = write_markdown_report(ranked, n)
    /\ pc' = IF md'.complete THEN "done" ELSE "crash"
    /\ UNCHANGED <<output_dir, seen, all_metrics, log, flattened, ranked, csv,
                   exists, listed, stderr, artifact, result, parsed>>

---------------------------------------------------------------------------
(* The run of main() over a directory tree *)

NoCsv == [header |-> <<>>, rows |-> <<>>]

Init ==
    /\ output_dir \in Roots
    /\ pc = "s1"
    /\ seen = {}
    /\ all_metrics = EmptyDict
    /\ log = {}
    /\ flattened = EmptyDict
    /\ ranked = <<>>
    /\ csv = NoCsv
    /\ exists \in BOOLEAN
    /\ listed = <<>>
    /\ stderr = {}
    /\ md = NoMd
    /\ artifact = <<>>
    /\ result = <<>>
    /\ parsed = <<>>

Next ==
    \/ \E d \in DesignNames, dir \in DesignDirs : Step1(d, dir.row, dir.pt, dir.cif)
    \/ \E d \in DesignNames, files \in FileLists : Step2(d, files)
    \/ \E d \in DesignNames, dir \in ProtenixDirs :
            Step3(d, dir.n, dir.has_dir, dir.files)
    \/ \E d \in ScoredDesigns, f \in IpsaeToolFiles : Step4(d, f.m, f.c)
    \/ \E d \in ScoredDesigns, f \in ToolFiles : Step5(d, f.m, f.c)
    \/ \E d \in ScoredDesigns, f \in ToolFiles : Step6(d, f.m, f.c)
    \/ EndLoop
    \/ Flatten
    \/ Rank
    \/ WriteSummary
    \/ WriteMarkdown

Spec == Init /\ [][Next]_vars

---------------------------------------------------------------------------
(* rank_designs and write_summary_report on candidates drawn from bounded  *)
(* sets: what aggregate_metrics_from_directories can return, with the      *)
(* values a metric file can hold.                                          *)

Absent == <<"absent">>
CandChoices ==
    [aggregate_ptm : {Absent, Num(1), Str},
     mpnn_seq_recovery : {None, Num(0), Num(1)},
     foldseek_num_hits : {Absent, Num(2)}]
Present(r) == [k \in {x \in DOMAIN r : r[x] # Absent} |-> r[k]]
CandModel(i) == <<"m" \o ToString(i)>>
RECURSIVE CandDict(_, _)
CandDict(ms, n) ==
    IF n = 0 THEN EmptyDict
    ELSE Put(CandDict(ms, n - 1), FullId(<<"d">>, CandModel(n)),
             FlatEntry(EmptyMap, Present(ms[n]), <<"d">>, CandModel(n)))

InitRank ==
    /\ output_dir \in {CHOOSE r \in Roots : TRUE}
    /\ pc = "rank"
    /\ seen = {}
    /\ all_metrics = EmptyDict
    /\ log = {}
    /\ \E n \in 0..MaxCands : \E ms \in [1..n -> CandChoices] :
            flattened = CandDict(ms, n)
    /\ ranked = <<>>
    /\ csv = NoCsv
    /\ exists = TRUE
    /\ listed = <<>>
    /\ stderr = {}
    /\ md = NoMd
    /\ artifact = <<>>
    /\ result = <<>>
    /\ parsed = <<>>

NextRank == Rank \/ WriteSummary \/ WriteMarkdown

SpecRank == InitRank /\ [][NextRank]_vars

---------------------------------------------------------------------------
(* The parsers, each called on one artifact.  A file is a record: whether  *)
(* it exists, whether open() succeeds, and what it holds.  A field of a    *)
(* file is Absent, a number <<"num", v>>, or Str (text that float() and    *)
(* int() reject).  A parser returns [metrics, warned, raised]: the mapping *)
(* it hands back, whether it printed a warning, and whether an exception   *)
(* left it.                                                                *)

\* the conversions of a try block, in order: <<key, field>> pairs.  An absent
\* field leaves the key as it is, a number is stored, anything else raises
\* and the later pairs are not reached.
RECURSIVE Convert(_, _)
Convert(fields, metrics) ==
    IF fields = <<>> THEN [metrics |-> metrics, exc |-> FALSE]
    ELSE LET k == Head(fields)[1]
             x == Head(fields)[2]
         IN  IF x = Absent THEN Convert(Tail(fields), metrics)
             ELSE IF IsNum(x)
                  THEN Convert(Tail(fields), Update(metrics, [j \in {k} |-> x]))
                  ELSE [metrics |-> metrics, exc |-> TRUE]
Done(metrics) == [metrics |-> metrics, exc |-> FALSE]
Exc(metrics) == [metrics |-> metrics, exc |-> TRUE]

\* (variant: the exception of the try block is not caught)
TryUncaught(f, init, body) ==
    IF ~f.exists THEN [metrics |-> init, warned |-> FALSE, raised |-> FALSE]
    ELSE IF ~f.readable THEN [metrics |-> init, warned |-> FALSE, raised |-> TRUE]
    ELSE [metrics |-> body.metrics, warned |-> FALSE, raised |-> body.exc]
\* if not os.path.exists(f): return metrics / try: with open(f) ... / except
\* Exception: print a warning / return metrics
Try(f, init, body) ==
    IF ~f.exists THEN [metrics |-> init, warned |-> FALSE, raised |-> FALSE]
    ELSE IF ~f.readable THEN [metrics |-> init, warned |-> TRUE, raised |-> FALSE]
    ELSE [metrics |-> body.metrics, warned |-> body.exc, raised |-> FALSE]

\* f.lines: for each line, Absent when it does not start with 'IPSAE:', else
\* the text behind the colon
parse_ipsae_scores(f) ==
    LET init == [ipsae_score |-> None]
        idx == {i \in 1..Len(f.lines) : f.lines[i] # Absent}
        first == CHOOSE i \in idx : \A j \in idx : i <= j
    IN  Try(f, init,
            IF idx = {} THEN Done(init)
            ELSE Convert(<< <<"ipsae_score", f.lines[first]>> >>, init))

\* The text of a CSV cell or of a regex group: IntLit(v) is an integer
\* literal ('87'), DecLit(v) a literal with a point or an exponent ('87.0',
\* '1.2e-09'), Blank the empty text, Str any other text.
IntLit(v) == <<"digits", v>>
DecLit(v) == <<"decimal", v>>
Blank == <<"blank">>
\* float(x) if x else None, int(x) if x else None: float() reads both kinds of
\* literal, int() integer literals only; other text is left for Convert to
\* raise on
ToFloat(x) ==
    IF x \in {Absent, Blank} THEN Absent
    ELSE IF x[1] \in {"digits", "decimal"} THEN Num(x[2]) ELSE Str
ToInt(x) ==
    IF x \in {Absent, Blank} THEN Absent
    ELSE IF x[1] = "digits" THEN Num(x[2]) ELSE Str

\* (variant: the loop over the rows has no break, the last row is kept)
parse_prodigy_csv_LastRow(f) ==
    LET init == [buried_surface_area |-> None, num_interface_contacts |-> None,
                 predicted_binding_affinity |-> None, predicted_kd |-> None]
        row == f.rows[Len(f.rows)]
    IN  Try(f, init,
            IF f.rows = <<>> THEN Done(init)
            ELSE Convert(<< <<"buried_surface_area", ToFloat(row.buried_surface_area_A2)>>,
                            <<"num_interface_contacts", ToInt(row.num_interface_contacts)>>,
                            <<"predicted_binding_affinity",
                              ToFloat(row.predicted_binding_affinity_kcal_mol)>>,
                            <<"predicted_kd", ToFloat(row.predicted_kd_M)>> >>, init))
\* f.rows: the data rows, each a record of the text of the four cells (Absent:
\* the column is missing)
parse_prodigy_csv(f) ==
    LET init == [buried_surface_area |-> None, num_interface_contacts |-> None,
                 predicted_binding_affinity |-> None, predicted_kd |-> None]
        row == f.rows[1]
    IN  Try(f, init,
            IF f.rows = <<>> THEN Done(init)
            ELSE Convert(<< <<"buried_surface_area", ToFloat(row.buried_surface_area_A2)>>,
                            <<"num_interface_contacts", ToInt(row.num_interface_contacts)>>,
                            <<"predicted_binding_affinity",
                              ToFloat(row.predicted_binding_affinity_kcal_mol)>>,
                            <<"predicted_kd", ToFloat(row.predicted_kd_M)>> >>, init))

\* parse_prodigy_output.py.  The values of its mapping carry their Python
\* type, which decides the text csv.DictWriter writes for them.
PyInt(v) == <<"int", v>>
PyFloat(v) == <<"float", v>>
\* (variant: the contacts are converted with float())
parse_prodigy_output_FloatContacts(content) ==
    LET conv(x) == IF x \in {Absent, Str} THEN None ELSE PyFloat(x[2])
    IN  [metrics |-> [buried_surface_area |-> conv(content.bsa),
                      num_interface_contacts |-> conv(content.ic),
                      predicted_binding_affinity |-> conv(content.dg),
                      predicted_kd |-> conv(content.kd)],
         raised |-> Str \in {content.bsa, content.dg, content.kd}]
\* content: the group each re.search has captured (Absent: no match).  float()
\* of a group that is no literal raises, and nothing catches it.  The six
\* other keys of the mapping are read in the same way and are left out.
parse_prodigy_output(content) ==
    LET conv(x) == IF x \in {Absent, Str} THEN None ELSE PyFloat(x[2])
    IN  [metrics |-> [buried_surface_area |-> conv(content.bsa),
                      num_interface_contacts |->
                          IF content.ic = Absent THEN None ELSE PyInt(content.ic[2]),
                      predicted_binding_affinity |-> conv(content.dg),
                      predicted_kd |-> conv(content.kd)],
         raised |-> Str \in {content.bsa, content.dg, content.kd}]
\* the text csv.DictWriter writes for a value: '' for None, str() otherwise
CsvText(x) ==
    IF x = None THEN Blank
    ELSE IF x[1] = "int" THEN IntLit(x[2]) ELSE DecLit(x[2])
\* the file write_csv_summary writes: the header and one row
write_csv_summary(metrics) ==
    [exists |-> TRUE, readable |-> TRUE,
     rows |-> << [buried_surface_area_A2 |-> CsvText(metrics.buried_surface_area),
                  num_interface_contacts |-> CsvText(metrics.num_interface_contacts),
                  predicted_binding_affinity_kcal_mol |->
                      CsvText(metrics.predicted_binding_affinity),
                  predicted_kd_M |-> CsvText(metrics.predicted_kd)] >>]

\* f.lines: the header line and the data lines; a data line is a record:
\* whether it has 12 fields, and its fields 10 and 11
parse_foldseek_summary(f) ==
    LET init == [foldseek_top_hit |-> None, foldseek_top_evalue |-> None,
                 foldseek_top_bits |-> None, foldseek_num_hits |-> Num(0)]
        data == Tail(f.lines)
        hit_count == [foldseek_num_hits |-> Num(Len(data))]
        top == Convert(<< <<"foldseek_top_evalue", data[1].evalue>>,
                          <<"foldseek_top_bits", data[1].bits>> >>,
                       Update(init, [foldseek_top_hit |-> Str]))
    IN  Try(f, init,
            IF f.lines = <<>> THEN Exc(init)
            ELSE IF data = <<>> THEN Done(Update(init, hit_count))
            ELSE IF ~data[1].fields12 THEN Done(Update(init, hit_count))
            ELSE IF top.exc THEN top
            ELSE Done(Update(top.metrics, hit_count)))

\* f.rows: the data rows, each a mapping column -> cell
parse_aggregate_metrics_csv(f) ==
    Try(f, EmptyMap, IF f.rows = <<>> THEN Done(EmptyMap) ELSE Done(boltz_metrics(f.rows[1])))

\* f.rows: the data rows, each a mapping column -> cell
parse_per_target_metrics_csv(f) ==
    LET RECURSIVE values(_, _)
        values(key, i) ==
            IF i > Len(f.rows) THEN <<>>
            ELSE (IF IsNum(f.rows[i][key]) THEN <<f.rows[i][key][2]>> ELSE <<>>)
                 \o values(key, i + 1)
        RECURSIVE columns(_)
        columns(keys) ==
            IF keys = {} THEN EmptyMap
            ELSE LET key == CHOOSE k \in keys : TRUE
                 IN  Update(columns(keys \ {key}), column_metrics(key, values(key, 1)))
    IN  Try(f, EmptyMap,
            IF f.rows = <<>> THEN Done(EmptyMap) ELSE Done(columns(DOMAIN f.rows[1])))

\* f.headers: the '>' lines, each a record of the fields score=, global_score=
\* and seq_recovery=; line[1:].split(','): the parts of the headers in the
\* order they are read, each the name before '=' and the text behind it
RECURSIVE MpnnFields(_)
MpnnFields(headers) ==
    IF headers = <<>> THEN <<>>
    ELSE << <<SCORE, Head(headers).score>>,
            <<GLOBAL_SCORE, Head(headers).global_score>>,
            <<SEQ_RECOVERY, Head(headers).seq_recovery>> >> \o MpnnFields(Tail(headers))
\* (variant: 'score=' in part alone decides, 'global_score' is not excluded)
MpnnKindAnyScore(name) ==
    IF EndsWith(name, SCORE) THEN "score"
    ELSE IF EndsWith(name, GLOBAL_SCORE) THEN "global_score"
    ELSE IF EndsWith(name, SEQ_RECOVERY) THEN "seq_recovery"
    ELSE "other"
\* if 'score=' in part and 'global_score' not in part / elif 'global_score='
\* in part / elif 'seq_recovery=' in part: the list a part is appended to
MpnnKind(name) ==
    IF EndsWith(name, SCORE) /\ Replace(name, GLOBAL_SCORE) = name THEN "score"
    ELSE IF EndsWith(name, GLOBAL_SCORE) THEN "global_score"
    ELSE IF EndsWith(name, SEQ_RECOVERY) THEN "seq_recovery"
    ELSE "other"
\* the lists scores, global_scores and seq_recoveries after the loop, or the
\* exception of a float() that failed
RECURSIVE MpnnLists(_, _)
MpnnLists(fields, acc) ==
    IF fields = <<>> THEN [lists |-> acc, exc |-> FALSE]
    ELSE LET k == MpnnKind(Head(fields)[1])
             x == Head(fields)[2]
         IN  IF x = Absent \/ k = "other" THEN MpnnLists(Tail(fields), acc)
             ELSE IF IsNum(x)
                  THEN MpnnLists(Tail(fields), [acc EXCEPT ![k] = Append(@, x[2])])
                  ELSE [lists |-> acc, exc |-> TRUE]
parse_proteinmpnn_scores(f) ==
    LET init == [mpnn_score |-> None, mpnn_global_score |-> None,
                 mpnn_seq_recovery |-> None, mpnn_num_sequences |-> Num(0)]
        r == MpnnLists(MpnnFields(f.headers),
                       [score |-> <<>>, global_score |-> <<>>, seq_recovery |-> <<>>])
        l == r.lists
        m1 == IF l.score = <<>> THEN init
              ELSE Update(init, [mpnn_score |-> Mean(l.score),
                                 mpnn_num_sequences |-> Num(Len(l.score))])
        m2 == IF l.global_score = <<>> THEN m1
              ELSE Update(m1, [mpnn_global_score |-> Mean(l.global_score)])
        m3 == IF l.seq_recovery = <<>> THEN m2
              ELSE Update(m2, [mpnn_seq_recovery |-> Mean(l.seq_recovery)])
    IN  Try(f, init, IF r.exc THEN Exc(init) ELSE Done(m3))

\* f.data: the top-level keys of the JSON object (f.parses: json.load works);
\* plddt is a number, a list of numbers <<"list", values>> or text
parse_protenix_confidence(f) ==
    LET init == [protenix_plddt |-> None, protenix_ptm |-> None,
                 protenix_iptm |-> None, protenix_ranking_score |-> None]
        d == f.data
        plddt == IF d.plddt[1] = "list"
                 THEN (IF d.plddt[2] = <<>> THEN Str ELSE Mean(d.plddt[2]))
                 ELSE d.plddt
        rest == << <<"protenix_ptm", d.ptm>>, <<"protenix_iptm", d.iptm>>,
                   <<"protenix_ranking_score",
                     IF d.ranking_score # Absent THEN d.ranking_score ELSE d.score>> >>
    IN  Try(f, init,
            IF ~f.parses THEN Exc(init)
            ELSE IF plddt = Absent \/ plddt[1] \in {"num", "frac"}
                 THEN Convert(rest, IF plddt = Absent THEN init
                                    ELSE Update(init, [protenix_plddt |-> plddt]))
                 ELSE Exc(init))

\* parse_boltzgen_predictions, one JSON file of the directory: the try block
\* of the loop body on the mapping so far
BoltzgenFile(file, metrics) ==
    IF ~file.parses THEN Exc(metrics)
    ELSE Convert(<< <<"model_confidence", file.data.model_confidence>>,
                    <<"plddt_avg", file.data.plddt>>,
                    <<"ptm_score", file.data.ptm>> >>, metrics)

---------------------------------------------------------------------------
(* extract_target_sequence.py *)

\* A line of an mmCIF file after strip(): Tag(c) is a line '_c.<item>', Loop
\* the line 'loop_', Hash the line '#', Row(parts) a data line and its
\* split().
Tag(c) == <<"tag", c>>
Loop == <<"loop">>
Hash == <<"hash">>
Row(parts) == <<"row", parts>>
STRUCT_ASYM == "struct_asym"
ENTITY_POLY_SEQ == "entity_poly_seq"

aa_map == [MET |-> "M", ALA |-> "A", GLY |-> "G", UNK |-> "X"]

\* the body of `for line in f` on the state of the loop
parse_cif_line(st, line) ==
    IF line = Tag(STRUCT_ASYM) THEN [st EXCEPT !.in_entity_poly = TRUE]
    ELSE IF st.in_entity_poly /\ line[1] \in {"row", "loop"}
    THEN IF line[1] = "row" /\ Len(line[2]) >= 3
         THEN [st EXCEPT !.entity_to_chain = Update(@, [e \in {line[2][2]} |-> line[2][1]])]
         ELSE st
    ELSE IF line = Tag(ENTITY_POLY_SEQ) THEN [st EXCEPT !.in_entity_poly_seq = TRUE]
    ELSE IF st.in_entity_poly_seq
    THEN IF line[1] \in {"tag", "hash", "loop"}
         THEN [st EXCEPT !.in_entity_poly_seq = FALSE]
         ELSE IF Len(line[2]) >= 3
              THEN LET entity_id == line[2][1]
                       residue == line[2][3]
                       single_letter == IF residue \in DOMAIN aa_map THEN aa_map[residue]
                                        ELSE "X"
                       seq_list == IF Has(st.sequences, entity_id)
                                   THEN st.sequences.val[entity_id] ELSE <<>>
                   IN  [st EXCEPT !.sequences = Put(@, entity_id,
                                                    Append(seq_list, single_letter))]
              ELSE st
    ELSE st
RECURSIVE parse_cif_lines(_, _)
parse_cif_lines(st, lines) ==
    IF lines = <<>> THEN st ELSE parse_cif_lines(parse_cif_line(st, Head(lines)), Tail(lines))
\* chain_sequences[entity_to_chain.get(entity_id, entity_id)] = ''.join(seq_list)
RECURSIVE chain_sequences(_, _, _)
chain_sequences(st, i, acc) ==
    IF i > Len(st.sequences.keys) THEN acc
    ELSE LET entity_id == st.sequences.keys[i]
             chain_id == IF entity_id \in DOMAIN st.entity_to_chain
                         THEN st.entity_to_chain[entity_id] ELSE entity_id
         IN  chain_sequences(st, i + 1, Put(acc, chain_id, st.sequences.val[entity_id]))
\* f: whether open() works, and the lines; an exception gives {}
parse_cif_sequences(f) ==
    IF ~f.readable THEN EmptyDict
    ELSE chain_sequences(parse_cif_lines([in_entity_poly |-> FALSE,
                                          in_entity_poly_seq |-> FALSE,
                                          entity_to_chain |-> EmptyMap,
                                          sequences |-> EmptyDict], f.lines),
                         1, EmptyDict)

Text(s) == <<"text", s>>
\* (variant: the designed chain is not excluded)
identify_target_chain_Longest(sequences, designed_chain) ==
    IF sequences.keys = <<>> THEN <<None, None>>
    ELSE LET best == CHOOSE i \in 1..Len(sequences.keys) :
                        /\ \A j \in 1..Len(sequences.keys) :
                               Len(sequences.val[sequences.keys[j]])
                                   <= Len(sequences.val[sequences.keys[i]])
                        /\ \A j \in 1..(i - 1) :
                               Len(sequences.val[sequences.keys[j]])
                                   < Len(sequences.val[sequences.keys[i]])
         IN  <<sequences.keys[best], sequences.val[sequences.keys[best]]>>
\* sequences: the chains in insertion order; designed_chain: None when the
\* option is not given, else Text(s) (Text("") is falsy).  max() returns the
\* first of the longest candidates.
identify_target_chain(sequences, designed_chain) ==
    IF sequences.keys = <<>> THEN <<None, None>>
    ELSE LET others == SelectSeq(sequences.keys, LAMBDA k : Text(k) # designed_chain)
             candidates ==
                 IF designed_chain \notin {None, Text("")}
                    /\ Has(sequences, designed_chain[2])
                 THEN (IF others = <<>> THEN sequences.keys ELSE others)
                 ELSE sequences.keys
             best == CHOOSE i \in 1..Len(candidates) :
                        /\ \A j \in 1..Len(candidates) :
                               Len(sequences.val[candidates[j]])
                                   <= Len(sequences.val[candidates[i]])
                        /\ \A j \in 1..(i - 1) :
                               Len(sequences.val[candidates[j]])
                                   < Len(sequences.val[candidates[i]])
         IN  <<candidates[best], sequences.val[candidates[best]]>>

---------------------------------------------------------------------------
(* convert_protenix_to_npz.py *)

\* JSON values: Num(v), Matrix(r, c, which) a list of r lists of c numbers,
\* Flat(n) a list of n numbers, Cube a list of lists of lists, Ragged a list
\* of lists of different lengths, TextRows a 2 x 2 list of texts that are no
\* numbers, Dict(d) an object.  `which` tells equal shapes apart.
Matrix(r, c, which) == <<"rows", r, c, which>>
Flat(n) == <<"flat", n>>
Cube == <<"cube">>
Ragged == <<"ragged">>
TextRows == <<"textrows">>
Dict(d) == <<"dict", d>>

\* a numpy array: its ndim, shape and dtype, and the JSON value it holds
Array(ndim, shape, dtype, of) == <<"array", ndim, shape, dtype, of>>
Ndim(a) == a[2]
Shape(a) == a[3]
Dtype(a) == a[4]
Of(a) == a[5]

\* np.array(value).  For a ragged list the result depends on the numpy the
\* script runs with: ValueError (Raised), or a 1-D array of list objects.
np_array(value, ragged) ==
    CASE value[1] = "num" -> Array(0, <<>>, "float", value)
      [] value[1] = "rows" ->
            Array(2, <<value[2], value[3]>>, "float", value)
      [] value[1] = "flat" -> Array(1, <<value[2]>>, "float", value)
      [] value[1] = "cube" -> Array(3, <<1, 1, 1>>, "float", value)
      [] value[1] = "textrows" -> Array(2, <<2, 2>>, "str", value)
      [] value[1] = "dict" -> Array(0, <<>>, "object", value)
      [] value[1] = "ragged" ->
            IF ragged = "raises" THEN Raised
            ELSE Array(1, <<2>>, "object", value)

keys_to_check == <<"pae", "predicted_aligned_error", "token_pair_predicted_aligned_error",
                    "contact_probs", "contact_probabilities">>
nested_paths == << <<"confidence", "pae">>, <<"confidence", "predicted_aligned_error">>,
                   <<"scores", "pae">>, <<"scores", "predicted_aligned_error">> >>
IsObject(x) == x[1] = "dict"
\* the value find_pae_matrix hands to np.array, or None
FoundValue(data) ==
    LET top == {i \in 1..Len(keys_to_check) : IsObject(data) /\ keys_to_check[i] \in DOMAIN data[2]}
        InPath(path) == /\ IsObject(data) /\ path[1] \in DOMAIN data[2]
                        /\ IsObject(data[2][path[1]]) /\ path[2] \in DOMAIN data[2][path[1]][2]
        nested == {i \in 1..Len(nested_paths) : InPath(nested_paths[i])}
        first(S) == CHOOSE i \in S : \A j \in S : i <= j
    IN  IF top # {} THEN data[2][keys_to_check[first(top)]]
        ELSE IF nested # {}
             THEN data[2][nested_paths[first(nested)][1]][2][nested_paths[first(nested)][2]]
             ELSE None
find_pae_matrix(data, ragged) ==
    IF FoundValue(data) = None THEN None ELSE np_array(FoundValue(data), ragged)

\* a Python bool
PyBool(b) == <<"bool", b>>
\* (variant: the test of the two shape entries is left out)
validate_pae_matrix_NoSquare(pae_matrix) ==
    IF Ndim(pae_matrix) # 2 THEN PyBool(FALSE)
    ELSE IF Dtype(pae_matrix) # "float" THEN Raised
    ELSE PyBool(TRUE)
\* TRUE, FALSE, or Raised: pae_matrix < 0 raises TypeError on an array that
\* holds no numbers
validate_pae_matrix(pae_matrix) ==
    IF Ndim(pae_matrix) # 2 THEN PyBool(FALSE)
    ELSE IF Shape(pae_matrix)[1] # Shape(pae_matrix)[2] THEN PyBool(FALSE)
    ELSE IF Dtype(pae_matrix) # "float" THEN Raised
    ELSE PyBool(TRUE)

\* what the run leaves: the exit status, whether it ended with a traceback,
\* and the array saved under 'predicted_aligned_error' (Absent: no file)
Exit(status, traceback, written) ==
    [status |-> status, traceback |-> traceback, written |-> written]
Size(a) == IF Shape(a) = <<>> THEN 1
           ELSE IF Len(Shape(a)) = 1 THEN Shape(a)[1]
           ELSE IF Len(Shape(a)) = 2 THEN Shape(a)[1] * Shape(a)[2] ELSE 1
\* f: the input (state of the file, parsed data), verbose, whether the output
\* name ends in '.npz', and whether mkdir and savez_compressed succeed
convert_protenix_to_ipsae(f, ragged, write_ok) ==
    LET pae_matrix == find_pae_matrix(f.data, ragged)
        \* data.keys(), data['confidence'].keys(), data['scores'].keys()
        diagnostics_raise ==
            \/ ~IsObject(f.data)
            \/ \E k \in {"confidence", "scores"} :
                   k \in DOMAIN f.data[2] /\ ~IsObject(f.data[2][k])
        \* pae_matrix.min(), .max(), .mean() and their :.2f formats
        summary_raises == Size(pae_matrix) = 0 \/ Dtype(pae_matrix) # "float"
        valid == validate_pae_matrix(pae_matrix)
    IN  IF f.state # "ok" THEN Exit(1, FALSE, Absent)
        ELSE IF pae_matrix = Raised THEN Exit(1, TRUE, Absent)
        ELSE IF pae_matrix = None THEN Exit(1, diagnostics_raise, Absent)
        ELSE IF f.verbose /\ summary_raises THEN Exit(1, TRUE, Absent)
        ELSE IF valid = Raised THEN Exit(1, TRUE, Absent)
        ELSE IF valid = PyBool(FALSE) THEN Exit(1, FALSE, Absent)
        ELSE IF ~write_ok THEN Exit(1, FALSE, Absent)
        \* savez_compressed appends '.npz' to a name without it, and
        \* output_path.stat() then raises inside the try block
        ELSE IF f.verbose /\ ~f.npz_suffix THEN Exit(1, FALSE, pae_matrix)
        ELSE Exit(0, FALSE, pae_matrix)

---------------------------------------------------------------------------
(* The parsers on artifacts drawn from bounded sets *)

SeqsUpTo(S, n) == UNION {[1..k -> S] : k \in 0..n}
\* a file that is not there, one that open() fails on, and the readable ones
FilesOf(contents) ==
    {[exists |-> FALSE, readable |-> FALSE] @@ c : c \in {CHOOSE x \in contents : TRUE}}
    \cup {[exists |-> TRUE, readable |-> FALSE] @@ c : c \in {CHOOSE x \in contents : TRUE}}
    \cup {[exists |-> TRUE, readable |-> TRUE] @@ c : c \in contents}

IpsaeFiles == FilesOf({[lines |-> l] : l \in SeqsUpTo({Absent, Num(1), Num(2), Str}, MaxLines)})
ProdigyFiles ==
    LET Cells == {Absent, IntLit(1), Str}
        Rows == [buried_surface_area_A2 : Cells,
                 num_interface_contacts : Cells \cup {DecLit(1)},
                 predicted_binding_affinity_kcal_mol : Cells, predicted_kd_M : Cells]
        second == [buried_surface_area_A2 |-> IntLit(2), num_interface_contacts |-> IntLit(2),
                   predicted_binding_affinity_kcal_mol |-> IntLit(2),
                   predicted_kd_M |-> IntLit(2)]
    IN  FilesOf({[rows |-> <<>>]} \cup {[rows |-> <<r>>] : r \in Rows}
                \cup {[rows |-> <<r, second>>] : r \in Rows})
\* the groups of a PRODIGY output: ([\d.]+), (\d+), ([-\d.]+) and ([\d.e+-]+);
\* Str is a group such as '1.2.3' or '-'
ProdigyOutputs ==
    [bsa : {Absent, IntLit(1), DecLit(0), Str}, ic : {Absent, IntLit(0), IntLit(1)},
     dg : {Absent, DecLit(0 - 1)}, kd : {Absent, DecLit(1), Str}]
FoldseekFiles ==
    LET Lines == [fields12 : BOOLEAN, evalue : {Num(1), Str}, bits : {Num(1), Str}]
        header == [fields12 |-> TRUE, evalue |-> Str, bits |-> Str]
    IN  FilesOf({[lines |-> <<>>], [lines |-> <<header>>]}
                \cup {[lines |-> <<header, l>>] : l \in Lines}
                \cup {[lines |-> <<header, l, l>>] : l \in Lines})
AggregateFiles ==
    LET Rows == [plddt : {Num(1), Str}, iptm : {Num(2), Str}]
    IN  FilesOf({[rows |-> <<>>]} \cup {[rows |-> <<r>>] : r \in Rows}
                \cup {[rows |-> <<r, [plddt |-> Num(3), iptm |-> Num(3)]>>] : r \in Rows})
\* 26 is 11010 in binary: a value whose sum over three rows is rounded at
\* Precision digits, as that of 0.1 is at 53
PerTargetFiles ==
    LET Rows == [plddt : {Num(1), Num(26), Str}, iptm : {Num(2), Str}]
    IN  FilesOf({[rows |-> r] : r \in SeqsUpTo(Rows, MaxRows)})
MpnnFiles ==
    LET Headers == [score : {Absent, Num(1), Num(3), Str}, global_score : {Absent, Num(2)},
                    seq_recovery : {Absent, Num(1)}]
    IN  FilesOf({[headers |-> h] : h \in SeqsUpTo(Headers, MaxLines)})
ProtenixFiles ==
    LET Data == [plddt : {Absent, Num(1), <<"list", <<1, 3>> >>, <<"list", <<>> >>, Str},
                 ptm : {Absent, Num(1), Str}, iptm : {Absent, Num(1)},
                 ranking_score : {Absent, Num(1)}, score : {Absent, Num(2), Str}]
    IN  FilesOf({[parses |-> FALSE, data |-> CHOOSE d \in Data : TRUE]}
                \cup {[parses |-> TRUE, data |-> d] : d \in Data})
\* a directory and its *.json files in glob order
BoltzgenDirs ==
    LET Data == [model_confidence : {Absent, Num(1), Num(2)}, plddt : {Absent, Num(1), Str},
                 ptm : {Absent, Num(1), Num(2)}]
        JsonFiles == {[parses |-> FALSE, data |-> CHOOSE d \in Data : TRUE]}
                     \cup {[parses |-> TRUE, data |-> d] : d \in Data}
    IN  {[exists |-> FALSE, json_files |-> <<>>]}
        \cup {[exists |-> TRUE, json_files |-> fs] : fs \in SeqsUpTo(JsonFiles, MaxJson)}

\* mmCIF files: the categories struct_asym (chains A and B of the entities 1
\* and 2), entity_poly_seq (MET ALA for entity 1, GLY for entity 2) and
\* atom_site, each a loop_ closed by '#', in any order and number
AsymBlock ==
    <<Loop, Tag(STRUCT_ASYM), Tag(STRUCT_ASYM), Tag(STRUCT_ASYM),
      Row(<<"A", "1", "?">>), Row(<<"B", "2", "?">>), Hash>>
SeqBlock ==
    <<Loop, Tag(ENTITY_POLY_SEQ), Tag(ENTITY_POLY_SEQ), Tag(ENTITY_POLY_SEQ),
      Row(<<"1", "1", "MET">>), Row(<<"1", "2", "ALA">>), Row(<<"2", "1", "GLY">>), Hash>>
AtomBlock ==
    <<Loop, Tag("atom_site"), Tag("atom_site"),
      Row(<<"ATOM", "1", "N", "MET", "A">>), Row(<<"ATOM", "2", "CA", "MET", "A">>), Hash>>
RECURSIVE Lines(_)
Lines(blocks) ==
    IF blocks = <<>> THEN <<>>
    ELSE (CASE Head(blocks) = "asym" -> AsymBlock
            [] Head(blocks) = "seq" -> SeqBlock
            [] Head(blocks) = "atom" -> AtomBlock) \o Lines(Tail(blocks))
CifFiles ==
    LET Orders == {o \in SeqsUpTo({"asym", "seq", "atom"}, MaxBlocks) :
                      \A i, j \in 1..Len(o) : i # j => o[i] # o[j]}
    IN  {[readable |-> FALSE, blocks |-> <<>>, lines |-> <<>>]}
        \cup {[readable |-> TRUE, blocks |-> o, lines |-> Lines(o)] : o \in Orders}
\* the arguments of identify_target_chain: up to MaxChains chains in the order
\* of the mapping, and --designed-chain
ChainMaps ==
    LET Seqs == {<<"M">>, <<"M", "A">>, <<"G", "A">>}
        Orders == {o \in SeqsUpTo({"A", "B", "C"}, MaxChains) :
                      \A i, j \in 1..Len(o) : i # j => o[i] # o[j]}
    IN  UNION {{[keys |-> o, val |-> v] : v \in [{o[i] : i \in 1..Len(o)} -> Seqs]}
               : o \in Orders}
ChainArgs == [sequences : ChainMaps, designed_chain : {None, Text(""), Text("A"), Text("B"), Text("Z")}]

\* the inputs of convert_protenix_to_npz.py
ProtenixJson ==
    LET Values == {Num(5), Matrix(2, 2, "pae"), Matrix(2, 3, "pae"), Matrix(1, 0, "pae"), Flat(0),
                   Flat(2), Cube, Ragged, TextRows}
        Top == [pae : Values \cup {Absent},
                predicted_aligned_error : {Absent, Matrix(2, 2, "predicted_aligned_error")},
                contact_probs : {Absent, Matrix(2, 2, "contact_probs")},
                confidence : {Absent, Num(1), Dict([ptm |-> Num(1)]),
                              Dict([pae |-> Matrix(2, 2, "confidence")])},
                scores : {Absent, Dict([predicted_aligned_error |-> Matrix(2, 3, "scores")])}]
        Given(t) == [k \in {k \in DOMAIN t : t[k] # Absent} |-> t[k]]
        Data == {Dict(Given(t)) : t \in Top} \cup {Matrix(2, 2, "top")}
    IN  {[state |-> st, data |-> Dict(EmptyMap), verbose |-> TRUE, npz_suffix |-> TRUE]
            : st \in {"missing", "invalid", "unreadable"}}
        \cup [state : {"ok"}, data : Data, verbose : BOOLEAN, npz_suffix : BOOLEAN]

Artifacts ==
    {<<"ipsae", f>> : f \in IpsaeFiles} \cup {<<"prodigy", f>> : f \in ProdigyFiles}
    \cup {<<"foldseek", f>> : f \in FoldseekFiles}
    \cup {<<"aggregate", f>> : f \in AggregateFiles}
    \cup {<<"per_target", f>> : f \in PerTargetFiles}
    \cup {<<"mpnn", f>> : f \in MpnnFiles} \cup {<<"protenix", f>> : f \in ProtenixFiles}
    \cup {<<"boltzgen", f>> : f \in BoltzgenDirs}
    \cup {<<"prodigy_out", c>> : c \in ProdigyOutputs}
    \cup {<<"cif", f>> : f \in CifFiles}
    \cup {<<"chains", a>> : a \in ChainArgs}
    \cup {<<"json", f>> : f \in ProtenixJson}

\* the mapping parse_boltzgen_predictions starts from
boltzgen_init == [model_confidence |-> None, plddt_avg |-> None, ptm_score |-> None]

InitParse ==
    /\ artifact \in Artifacts
    /\ result = [metrics |-> IF artifact[1] = "boltzgen" THEN boltzgen_init ELSE EmptyMap,
                 warned |-> FALSE, raised |-> FALSE]
    /\ pc = "parse"
    /\ parsed = <<>>
    /\ listed = <<>>
    /\ output_dir \in {CHOOSE r \in Roots : TRUE}
    /\ exists = TRUE
    /\ seen = {}
    /\ all_metrics = EmptyDict
    /\ log = {}
    /\ flattened = EmptyDict
    /\ ranked = <<>>
    /\ csv = NoCsv
    /\ stderr = {}
    /\ md = NoMd

\* one call of a single-file parser on the artifact
ParseIpsae ==
    /\ pc = "parse"
    /\ artifact[1] = "ipsae"
    /\ result' = parse_ipsae_scores(artifact[2])
    /\ pc' = "returned"
    /\ UNCHANGED <<output_dir, seen, all_metrics, log, flattened, ranked, csv,
                   exists, listed, stderr, md, artifact, parsed>>
ParseProdigy ==
    /\ pc = "parse"
    /\ artifact[1] = "prodigy"
    /\ result' = parse_prodigy_csv(artifact[2])
    /\ pc' = "returned"
    /\ UNCHANGED <<output_dir, seen, all_metrics, log, flattened, ranked, csv,
                   exists, listed, stderr, md, artifact, parsed>>
ParseFoldseek ==
    /\ pc = "parse"
    /\ artifact[1] = "foldseek"
    /\ result' = parse_foldseek_summary(artifact[2])
    /\ pc' = "returned"
    /\ UNCHANGED <<output_dir, seen, all_metrics, log, flattened, ranked, csv,
                   exists, listed, stderr, md, artifact, parsed>>
ParseAggregate ==
    /\ pc = "parse"
    /\ artifact[1] = "aggregate"
    /\ result' = parse_aggregate_metrics_csv(artifact[2])
    /\ pc' = "returned"
    /\ UNCHANGED <<output_dir, seen, all_metrics, log, flattened, ranked, csv,
                   exists, listed, stderr, md, artifact, parsed>>
ParsePerTarget ==
    /\ pc = "parse"
    /\ artifact[1] = "per_target"
    /\ result' = parse_per_target_metrics_csv(artifact[2])
    /\ pc' = "returned"
    /\ UNCHANGED <<output_dir, seen, all_metrics, log, flattened, ranked, csv,
                   exists, listed, stderr, md, artifact, parsed>>
ParseMpnn ==
    /\ pc = "parse"
    /\ artifact[1] = "mpnn"
    /\ result' = parse_proteinmpnn_scores(artifact[2])
    /\ pc' = "returned"
    /\ UNCHANGED <<output_dir, seen, all_metrics, log, flattened, ranked, csv,
                   exists, listed, stderr, md, artifact, parsed>>
ParseProtenix ==
    /\ pc = "parse"
    /\ artifact[1] = "protenix"
    /\ result' = parse_protenix_confidence(artifact[2])
    /\ pc' = "returned"
    /\ UNCHANGED <<output_dir, seen, all_metrics, log, flattened, ranked, csv,
                   exists, listed, stderr, md, artifact, parsed>>

\* parse_boltzgen_predictions: one turn of the loop over json_files; listed
\* holds the files the loop has been through
ParseJsonFile ==
    /\ pc = "parse"
    /\ artifact[1] = "boltzgen"
    /\ artifact[2].exists
    /\ Len(listed) < Len(artifact[2].json_files)
    /\ LET json_file == artifact[2].json_files[Len(listed) + 1]
           r == BoltzgenFile(json_file, result.metrics)
       IN  /\ result' = [metrics |-> r.metrics, warned |-> result.warned \/ r.exc,
                         raised |-> FALSE]
           /\ listed' = Append(listed, json_file)
    /\ UNCHANGED <<output_dir, pc, seen, all_metrics, log, flattened, ranked, csv,
                   exists, stderr, md, artifact, parsed>>
ReturnBoltzgen ==
    /\ pc = "parse"
    /\ artifact[1] = "boltzgen"
    /\ ~artifact[2].exists \/ Len(listed) = Len(artifact[2].json_files)
    /\ pc' = "returned"
    /\ UNCHANGED <<output_dir, seen, all_metrics, log, flattened, ranked, csv,
                   exists, listed, stderr, md, artifact, result, parsed>>

\* parse_prodigy_output.py, main: parse_prodigy_output on the PRODIGY output;
\* an exception ends the script before anything is written
ParseProdigyOutput ==
    /\ pc = "parse"
    /\ artifact[1] = "prodigy_out"
    /\ LET r == parse_prodigy_output(artifact[2])
       IN  IF r.raised
           THEN /\ pc' = "exit"
                /\ result' = [metrics |-> EmptyMap, warned |-> FALSE, raised |-> TRUE]
                /\ UNCHANGED parsed
           ELSE /\ pc' = "write"
                /\ parsed' = r.metrics
                /\ UNCHANGED result
    /\ UNCHANGED <<output_dir, seen, all_metrics, log, flattened, ranked, csv,
                   exists, listed, stderr, md, artifact>>
\* write_csv_summary; the file is what parse_prodigy_csv is called on later
WriteCsvSummary ==
    /\ pc = "write"
    /\ artifact' = <<"prodigy", write_csv_summary(parsed)>>
    /\ pc' = "parse"
    /\ UNCHANGED <<output_dir, seen, all_metrics, log, flattened, ranked, csv,
                   exists, listed, stderr, md, result, parsed>>

\* extract_target_sequence.py, main: sequences = parse_cif_sequences(...)
ParseCif ==
    /\ pc = "parse"
    /\ artifact[1] = "cif"
    /\ result' = parse_cif_sequences(artifact[2])
    /\ pc' = "sequences"
    /\ UNCHANGED <<output_dir, seen, all_metrics, log, flattened, ranked, csv,
                   exists, listed, stderr, md, artifact, parsed>>
\* identify_target_chain(sequences, designed_chain=args.designed_chain)
IdentifyTargetChain ==
    /\ pc = "parse"
    /\ artifact[1] = "chains"
    /\ result' = identify_target_chain(artifact[2].sequences, artifact[2].designed_chain)
    /\ pc' = "target"
    /\ UNCHANGED <<output_dir, seen, all_metrics, log, flattened, ranked, csv,
                   exists, listed, stderr, md, artifact, parsed>>

\* convert_protenix_to_npz.py, main: convert_protenix_to_ipsae(args.input_json,
\* args.output_npz, verbose=not args.quiet)
ConvertProtenix ==
    /\ pc = "parse"
    /\ artifact[1] = "json"
    /\ \E ragged \in {"raises", "object"}, write_ok \in BOOLEAN :
           result' = convert_protenix_to_ipsae(artifact[2], ragged, write_ok)
    /\ pc' = "exit"
    /\ UNCHANGED <<output_dir, seen, all_metrics, log, flattened, ranked, csv,
                   exists, listed, stderr, md, artifact, parsed>>

NextParse ==
    \/ ParseIpsae
    \/ ParseProdigy
    \/ ParseFoldseek
    \/ ParseAggregate
    \/ ParsePerTarget
    \/ ParseMpnn
    \/ ParseProtenix
    \/ ParseJsonFile
    \/ ReturnBoltzgen
    \/ ParseProdigyOutput
    \/ WriteCsvSummary
    \/ ParseCif
    \/ IdentifyTargetChain
    \/ ConvertProtenix

SpecParse == InitParse /\ [][NextParse]_vars

---------------------------------------------------------------------------
(* The aggregation as a function of the listing: what the loops of STEP 1  *)
(* to STEP 6 store when os.listdir and glob.glob return the entries of     *)
(* seq in that order.                                                      *)

\* the assignments one listed entry leads to, in order: (design_id, key, value)
FileWrites(design_id, files, key(_), metrics(_)) ==
    [i \in 1..Len(files) |-> <<design_id, key(files[i].m), <<"dict", metrics(files[i].c)>> >>]
ToolWrite(e, tool_dir, suffix, model_id, metrics) ==
    LET design_id == DesignIdOf(ToolPath(e[2], tool_dir, e[3][1] \o suffix), tool_dir)
    IN  IF design_id = <<>> THEN <<>> ELSE << <<design_id, model_id, <<"dict", metrics>> >> >>
WritesOf(e) ==
    LET d == e[2]
        a == e[3]
    IN  CASE e[1] = "s1" ->
                << <<d, BOLTZGEN, <<"dict", boltz_metrics(a[1])>> >> >>
                \o (IF a[2][1] = "missing" THEN <<>>
                    ELSE << <<d, BOLTZGEN, <<"dict", target_metrics(a[2][2])>> >> >>)
                \o (IF a[3][1] = "missing" THEN <<>>
                    ELSE << <<d, MODEL_IDS, <<"list", CifModelIds(a[3][2])>> >> >>)
          [] e[1] = "s2" ->
                LET key(m) == MpnnModelId(m \o SCORES_SUFFIX)
                IN  FileWrites(MpnnParent(d \o MPNN_OPTIMIZED), a[1], key, mpnn_metrics)
          [] e[1] = "s3" ->
                LET protenix_name == d \o <<U, "mpnn", U, a[1]>>
                    key(m) == ProtenixKey(protenix_name, m \o CONFIDENCE_SUFFIX)
                IN  IF MpnnSeqMatch(protenix_name) = <<>> \/ ~a[2] THEN <<>>
                    ELSE FileWrites(MpnnSeqMatch(protenix_name), a[3], key, protenix_metrics)
          [] e[1] = "s4" ->
                ToolWrite(e, IPSAE_DIR, IPSAE_SUFFIX, IpsaeModelId(a[1] \o IPSAE_SUFFIX),
                          ipsae_metrics(a[2]))
          [] e[1] = "s5" ->
                ToolWrite(e, PRODIGY_DIR, PRODIGY_SUFFIX,
                          ProdigyModelId(a[1] \o PRODIGY_SUFFIX), prodigy_metrics(a[2]))
          [] e[1] = "s6" ->
                ToolWrite(e, FOLDSEEK_DIR, FOLDSEEK_SUFFIX,
                          FoldseekModelId(a[1] \o FOLDSEEK_SUFFIX), foldseek_metrics(a[2]))

RECURSIVE AllWrites(_)
AllWrites(seq) == IF seq = <<>> THEN <<>> ELSE WritesOf(Head(seq)) \o AllWrites(Tail(seq))

RECURSIVE Replay(_, _)
Replay(am, writes) ==
    IF writes = <<>> THEN am
    ELSE LET w == Head(writes)
         IN  Replay(IF w[3][1] = "list" THEN StoreModelIds(am, w[1], w[3][2])
                    ELSE StoreMetrics(am, w[1], w[2], w[3][2]),
                    Tail(writes))

\* all_metrics and flattened_metrics for the listing seq
Aggregate(seq) == Replay(EmptyDict, AllWrites(seq))
Flattened(seq) == FlattenDesigns(EmptyDict, Aggregate(seq), 1)

\* the loops of the run have stored what the replay of its listing stores
ReplayAgrees ==
    /\ all_metrics = Aggregate(listed)
    /\ pc \in {"rank"} => flattened = Flattened(listed)

---------------------------------------------------------------------------
(* Properties of the aggregation (Spec) *)

ModelTools == {"mpnn", "protenix", "ipsae", "prodigy", "foldseek"}
DesignLevelKeys ==
    {"aggregate_plddt", "aggregate_iptm",
     "per_target_plddt_avg", "per_target_plddt_min", "per_target_plddt_max"}

\* the (design_id, model_id) pairs some tool's metrics were stored under
MetricIdentities == {<<e.design_id, e.model_id>> : e \in {x \in log : x.tool \in ModelTools}}

\* the candidates of flattened_metrics that carry identity id
CandidatesOf(id) ==
    {k \in DOMAIN flattened.val :
        /\ flattened.val[k]["design_id"] = Id(id[1])
        /\ flattened.val[k]["model_id"] = Id(id[2])}

\* the keys of a design's record that hold a model's metrics
ModelKeys(dd) == {k \in DOMAIN dd.val : k \notin {BOLTZGEN, MODEL_IDS}}
DesignLevel(dd) == IF Has(dd, BOLTZGEN) THEN dd.val[BOLTZGEN][2] ELSE EmptyMap

\* C1: when flattening returns, there are as many candidates as identities
\* that received metrics from some tool, and every such identity has its own
\* candidate.
C1_CandidatesEqualIdentities ==
    pc = "rank" =>
        /\ Cardinality(DOMAIN flattened.val) = Cardinality(MetricIdentities)
        /\ \A id \in MetricIdentities : CandidatesOf(id) # {}

\* C2: a model seen only as a .cif file of intermediate_designs_inverse_folded,
\* with no metrics of its own, has a candidate made of the design-level metrics.
C2_CifOnlyModelIsCandidate ==
    pc = "rank" =>
        \A e \in log :
            (e.tool = "cif" /\ <<e.design_id, e.model_id>> \notin MetricIdentities) =>
                \E k \in CandidatesOf(<<e.design_id, e.model_id>>) :
                    flattened.val[k] =
                        FlatEntry(DesignLevel(all_metrics.val[e.design_id]), EmptyMap,
                                  e.design_id, e.model_id)

\* C3: an IPSAE, PRODIGY or Foldseek file <root>/<design>/<tool_dir>/<file> is
\* resolved to the directory above the tool directory and to the file name
\* without the tool suffix, whatever the root is.
C3_ToolDirIdentity ==
    \A e \in log :
        e.tool \in {"ipsae", "prodigy", "foldseek"} =>
            e.design_id = e.design /\ e.model_id = e.model

\* C4: every tool's output of design D is stored in the record keyed D: the
\* directory D, D_mpnn_optimized and D_mpnn_<n> all resolve to design_id D.
C4_DesignIdStable ==
    \A e \in log : e.tool # "cif" => e.design_id = e.design

\* C5: every candidate is one design's design-level metrics united with one of
\* that design's model-level sets, the model-level value kept where both have
\* the key.
C5_CandidateIsUnion ==
    pc = "rank" =>
        \A k \in DOMAIN flattened.val :
            \E d \in DOMAIN all_metrics.val :
                \E m \in ModelKeys(all_metrics.val[d]) :
                    LET cand == flattened.val[k]
                        b == DesignLevel(all_metrics.val[d])
                        v == all_metrics.val[d].val[m][2]
                    IN  /\ k = FullId(d, m)
                        /\ cand["design_id"] = Id(d) /\ cand["model_id"] = Id(m)
                        /\ DOMAIN cand = DOMAIN b \cup DOMAIN v \cup {"design_id", "model_id"}
                        /\ \A x \in DOMAIN v : cand[x] = v[x]
                        /\ \A x \in DOMAIN b \ DOMAIN v : cand[x] = b[x]

\* a candidate whose design-level and model-level sets disagree on a key
C5_Witness ==
    /\ pc = "rank"
    /\ \E d \in DOMAIN all_metrics.val :
         \E m \in ModelKeys(all_metrics.val[d]) :
            /\ FullId(d, m) \in DOMAIN flattened.val
            /\ \E x \in DOMAIN DesignLevel(all_metrics.val[d])
                          \cap DOMAIN all_metrics.val[d].val[m][2] :
                    DesignLevel(all_metrics.val[d])[x] # all_metrics.val[d].val[m][2][x]

\* C6: the design-level set of a record holds only metrics that carry no
\* model_id, and a model's set holds none of those.
C6_MergePolicy ==
    \A d \in DOMAIN all_metrics.val :
        LET dd == all_metrics.val[d]
        IN  /\ DOMAIN DesignLevel(dd) \subseteq DesignLevelKeys
            /\ \A m \in ModelKeys(dd) : DOMAIN dd.val[m][2] \cap DesignLevelKeys = {}

---------------------------------------------------------------------------
(* Properties of the listing order (Spec) *)

\* the symbols of the names of the tree in character order; two names differ
\* first at a position where both hold a word, and a name that is the start
\* of another one sorts before it
SymbolOrder ==
    <<"1", "2", "a", "b", "boltzgen", "c", "confidence", "mpnn", "optimized", "x">>
RECURSIVE NameLess(_, _)
NameLess(a, b) ==
    IF b = <<>> THEN FALSE
    ELSE IF a = <<>> THEN TRUE
    ELSE IF Head(a) = Head(b) THEN NameLess(Tail(a), Tail(b))
    ELSE IndexOf(SymbolOrder, Head(a)) < IndexOf(SymbolOrder, Head(b))
\* the path of a listed entry below output_dir: directory name, file name
PathKey(e) ==
    CASE e[1] = "s1" -> <<e[2], <<>> >>
      [] e[1] = "s2" -> <<e[2] \o MPNN_OPTIMIZED, <<>> >>
      [] e[1] = "s3" -> <<e[2] \o <<U, "mpnn", U, e[3][1]>>, <<>> >>
      [] OTHER -> <<e[2], e[3][1]>>
PathLess(e, f) ==
    \/ NameLess(PathKey(e)[1], PathKey(f)[1])
    \/ PathKey(e)[1] = PathKey(f)[1] /\ NameLess(PathKey(e)[2], PathKey(f)[2])
\* seq with the entries of each step in path order (the steps follow one
\* another in seq as they do in the run)
SortByPath(seq) ==
    LET before(i) == {j \in 1..Len(seq) :
                        \/ seq[j][1] # seq[i][1] /\ j < i
                        \/ seq[j][1] = seq[i][1] /\ PathLess(seq[j], seq[i])}
    IN  [p \in 1..Len(seq) |->
            seq[CHOOSE i \in 1..Len(seq) : Cardinality(before(i)) = p - 1]]

\* C11: the candidates reach the ranker in the order that the path-sorted
\* listing of the same tree gives, whatever order the file system listed the
\* entries in.
C11_ListingOrderIrrelevant ==
    pc = "rank" => flattened.keys = Flattened(SortByPath(listed)).keys

\* the writes of the model-level tools and of STEP 1, in the order of the run
IsDesignStep(e) == e[1] = "s1"
IsModelStep(e) == e[1] # "s1"
ModelWrites == AllWrites(SelectSeq(listed, IsModelStep))
DesignWrites ==
    LET IsDict(w) == w[3][1] = "dict"
    IN  SelectSeq(AllWrites(SelectSeq(listed, IsDesignStep)), IsDict)
\* no later write of ws stores key k under the same design_id and model key
LastWrite(ws, p, k) ==
    \A q \in (p + 1)..Len(ws) :
        ~(ws[q][1] = ws[p][1] /\ ws[q][2] = ws[p][2] /\ k \in DOMAIN ws[q][3][2])
Aggregated == pc \in {"rank", "csv", "md", "done", "crash"}

\* C12: a value a parser returned for (design_id, model_id), not replaced by a
\* later write of the same key for that identity, is the value of that key in
\* the identity's candidate, before and after scoring; a design-level value
\* is the value of its key in every candidate of the design.
C12_ValuesReachCandidate ==
    Aggregated =>
        /\ \A p \in 1..Len(ModelWrites) :
              LET w == ModelWrites[p]
              IN  \A k \in DOMAIN w[3][2] :
                    LastWrite(ModelWrites, p, k) =>
                        \E c \in CandidatesOf(<<w[1], w[2]>>) :
                            flattened.val[c][k] = w[3][2][k]
        /\ \A p \in 1..Len(DesignWrites) :
              LET w == DesignWrites[p]
              IN  \A k \in DOMAIN w[3][2] :
                    LastWrite(DesignWrites, p, k) =>
                        \A c \in DOMAIN flattened.val :
                            flattened.val[c]["design_id"] = Id(w[1]) =>
                                flattened.val[c][k] = w[3][2][k]

\* the orders in which the entries of seq can be processed
Orders(seq) ==
    LET n == Len(seq)
    IN  {[i \in 1..n |-> seq[f[i]]] :
            f \in {g \in [1..n -> 1..n] : \A i, j \in 1..n : g[i] = g[j] => i = j}}
\* records and candidates without the order of their keys
ContentOf(am) == [d \in DOMAIN am.val |-> am.val[d].val]
\* no two writes store the same metric key under the same design_id and key
NoSharedKey(ws) ==
    \A p, q \in 1..Len(ws) :
        (p < q /\ ws[p][1] = ws[q][1] /\ ws[p][2] = ws[q][2]) =>
            /\ ws[p][3][1] = "dict" /\ ws[q][3][1] = "dict"
            /\ DOMAIN ws[p][3][2] \cap DOMAIN ws[q][3][2] = {}

\* C13: aggregating the listing of the run again gives the records of the run,
\* and when no two artifacts write the same key for the same identity every
\* processing order of the artifacts gives the same records and the same
\* candidates.
C13_OrderIndependent ==
    pc = "rank" =>
        /\ Aggregate(listed) = all_metrics
        /\ NoSharedKey(AllWrites(listed)) =>
              \A seq \in Orders(listed) :
                  /\ ContentOf(Aggregate(seq)) = ContentOf(all_metrics)
                  /\ Flattened(seq).val = flattened.val

---------------------------------------------------------------------------
(* Properties of scoring, ranking and the CSV summary (SpecRank) *)

\* the weighted metrics of a candidate that hold a number
Contributing(m) == {k \in DOMAIN Weights : k \in DOMAIN m /\ IsNum(m[k])}
RECURSIVE WeightedSum(_, _)
WeightedSum(m, keys) ==
    IF keys = {} THEN 0
    ELSE LET k == CHOOSE x \in keys : TRUE
         IN  Weights[k] * m[k][2] + WeightedSum(m, keys \ {k})
RawSum(m) == WeightedSum(m, Contributing(m))
Count(m) == Cardinality(Contributing(m))
Weighted(m) == [k \in DOMAIN m \cap DOMAIN Weights |-> m[k]]
Ranked == pc \in {"csv", "md", "done", "crash"}

\* C7: the composite score is the sum of weight x value over the weighted
\* metrics that hold a number, divided by how many of them there are (0.0 when
\* there is none); a metric outside the weight table does not change it.
C7_CompositeScore ==
    Ranked =>
        \A i \in 1..Len(ranked) :
            LET m == ranked[i][2]
                sc == ranked[i][3]
            IN  /\ sc[3] > 0
                /\ IF Count(m) = 0 THEN sc[2] = 0
                   ELSE sc[2] * Count(m) = RawSum(m) * sc[3]
                /\ \A j \in 1..Len(ranked) :
                        Weighted(ranked[j][2]) = Weighted(m) =>
                            sc[2] * ranked[j][3][3] = ranked[j][3][2] * sc[3]

\* a candidate scored on two metrics, next to one that differs from it only in
\* a metric outside the weight table
C7_Witness ==
    /\ Ranked
    /\ \E i, j \in 1..Len(ranked) :
        /\ Count(ranked[i][2]) = 2 /\ RawSum(ranked[i][2]) # 0
        /\ "foldseek_num_hits" \in DOMAIN ranked[i][2]
        /\ "foldseek_num_hits" \notin DOMAIN ranked[j][2]
        /\ Weighted(ranked[i][2]) = Weighted(ranked[j][2])

\* C8: in the written CSV a candidate with no contributing metric has
\* composite_score exactly 0.0 and _metrics_used 0, and every other candidate
\* has _metrics_used equal to its number of contributing metrics, above 0.
C8_ZeroContributing ==
    pc = "md" =>
        /\ Len(csv.rows) = Len(ranked)
        /\ \A i \in 1..Len(csv.rows) :
            LET m == ranked[i][2]
                row == csv.rows[i]
            IN  /\ row["_metrics_used"] = Num(Count(m))
                /\ Count(m) = 0 => row["composite_score"] = <<"score", 0, 1>>
                /\ Count(m) > 0 => row["_metrics_used"] # Num(0)

\* two rows with composite score 0.0, one of a candidate without contributing
\* metrics and one of a candidate with one
C8_Witness ==
    /\ pc = "md"
    /\ \E i, j \in 1..Len(csv.rows) :
        /\ csv.rows[i]["composite_score"][2] = 0
        /\ csv.rows[j]["composite_score"][2] = 0
        /\ csv.rows[i]["_metrics_used"] = Num(0)
        /\ csv.rows[j]["_metrics_used"] = Num(1)

\* one candidate's contributing metrics are a proper part of the other's, with
\* the same values
SameValuesOtherCoverage(a, b) ==
    /\ Contributing(a) \subseteq Contributing(b)
    /\ Contributing(a) # Contributing(b)
    /\ \A k \in Contributing(a) : a[k] = b[k]
\* a's weighted sum over its own count is at least b's
NormalizedGE(a, b) ==
    LET ca == IF Count(a) = 0 THEN 1 ELSE Count(a)
        cb == IF Count(b) = 0 THEN 1 ELSE Count(b)
    IN  RawSum(a) * cb >= RawSum(b) * ca

\* C9: two candidates with the same values and different coverage are ranked by
\* weighted sum over own contributing count.
C9_RankByNormalizedScore ==
    Ranked =>
        \A i, j \in 1..Len(ranked) :
            (/\ i < j
             /\ \/ SameValuesOtherCoverage(ranked[i][2], ranked[j][2])
                \/ SameValuesOtherCoverage(ranked[j][2], ranked[i][2]))
            => NormalizedGE(ranked[i][2], ranked[j][2])

\* the candidate with the smaller raw weighted sum is ranked first
C9_Witness ==
    /\ Ranked
    /\ \E i, j \in 1..Len(ranked) :
        /\ i < j
        /\ SameValuesOtherCoverage(ranked[i][2], ranked[j][2])
        /\ Count(ranked[i][2]) > 0
        /\ RawSum(ranked[i][2]) < RawSum(ranked[j][2])

\* position of a candidate in the mapping handed to rank_designs
InputPos(full_id) == CHOOSE p \in 1..Len(flattened.keys) : flattened.keys[p] = full_id

\* C10: rank_designs returns each input candidate once, in non-increasing order
\* of composite score, equal scores in input order.
C10_StableDescending ==
    Ranked =>
        /\ Len(ranked) = Len(flattened.keys)
        /\ \A p \in 1..Len(flattened.keys) :
                Cardinality({i \in 1..Len(ranked) : ranked[i][1] = flattened.keys[p]}) = 1
        /\ \A i, j \in 1..Len(ranked) :
                i < j =>
                    /\ ~ScoreLess(ranked[i][3], ranked[j][3])
                    /\ ~ScoreLess(ranked[j][3], ranked[i][3])
                            => InputPos(ranked[i][1]) < InputPos(ranked[j][1])

\* three candidates, the last of the input ranked first and the other two tied
C10_Witness ==
    /\ Ranked
    /\ Len(ranked) = 3
    /\ InputPos(ranked[1][1]) = 3
    /\ ScoreLess(ranked[2][3], ranked[1][3])
    /\ ~ScoreLess(ranked[3][3], ranked[2][3])
    /\ ~ScoreLess(ranked[2][3], ranked[3][3])
    /\ InputPos(ranked[2][1]) = 1

---------------------------------------------------------------------------
(* Properties of the run: skipped artifacts, failures, reports (Spec) *)

StepDir == [s4 |-> IPSAE_DIR, s5 |-> PRODIGY_DIR, s6 |-> FOLDSEEK_DIR]
StepSuffix == [s4 |-> IPSAE_SUFFIX, s5 |-> PRODIGY_SUFFIX, s6 |-> FOLDSEEK_SUFFIX]
\* a listed entry the loops resolve no identity for: a *_mpnn_* directory the
\* pattern (.+)_mpnn_\d+$ does not match, or a tool file with no path part in
\* front of its tool directory
Unresolvable(e) ==
    \/ e[1] = "s3" /\ MpnnSeqMatch(e[2] \o <<U, "mpnn", U, e[3][1]>>) = <<>>
    \/ /\ e[1] \in DOMAIN StepDir
       /\ DesignIdOf(ToolPath(e[2], StepDir[e[1]], e[3][1] \o StepSuffix[e[1]]),
                     StepDir[e[1]]) = <<>>

\* C15: the step that meets an artifact whose identity cannot be resolved
\* stores no metric, prints a warning, and the run goes on.
C15_UnresolvableSkippedWithWarning ==
    [][(listed' # listed /\ Unresolvable(listed'[Len(listed')])) =>
          /\ all_metrics' = all_metrics
          /\ stderr' # stderr
          /\ pc' # "crash"]_vars
\* the same without the warning
UnresolvableSkipped ==
    [][(listed' # listed /\ Unresolvable(listed'[Len(listed')])) =>
          /\ all_metrics' = all_metrics
          /\ pc' # "crash"]_vars

\* C16: a run whose output_dir does not exist writes no report and does not
\* complete; a run whose output_dir exists never ends in an exception.
C16_OnlyInvalidRootFatal ==
    /\ ~exists => (csv = NoCsv /\ ~md.written /\ pc # "done")
    /\ exists => pc # "crash"
\* the two halves on their own
InvalidRootFatal == ~exists => (csv = NoCsv /\ ~md.written /\ pc # "done")
NothingElseFatal == exists => pc # "crash"

\* C17: with no candidate, rank_designs returns the empty list, the CSV has
\* the header design_id, rank, composite_score and no row, the Markdown report
\* says that 0 designs were analyzed, and no call raises.
C17_EmptyReport ==
    /\ (pc \in {"csv", "md", "done", "crash"} /\ flattened.keys = <<>>) =>
            (ranked = <<>> /\ pc # "crash")
    /\ (pc \in {"md", "done"} /\ ranked = <<>>) =>
            csv = [header |-> <<"design_id", "rank", "composite_score">>, rows |-> <<>>]
    /\ (pc = "done" /\ ranked = <<>>) =>
            (md.written /\ md.total = 0 /\ md.no_designs /\ md.rows = <<>> /\ md.complete)
\* a run over a root that holds artifacts, none of which gives a candidate
C17_Witness ==
    /\ pc = "done"
    /\ ranked = <<>>
    /\ listed # <<>>
    /\ md.written /\ md.no_designs

IndexIn(seq, x) == CHOOSE i \in 1..Len(seq) : seq[i] = x
\* C18: the CSV has one row per ranked candidate, row i with rank i and with
\* every key of candidate i under its column; the header is priority_columns
\* followed by every other key of any candidate, each once, in lexical order.
C18_CompleteRecord ==
    (pc \in {"md", "done", "crash"} /\ ranked # <<>>) =>
        LET n == Len(priority_columns)
            other == SubSeq(csv.header, n + 1, Len(csv.header))
            keys == UNION {DOMAIN ranked[i][2] : i \in 1..Len(ranked)}
        IN  /\ Len(csv.rows) = Len(ranked)
            /\ SubSeq(csv.header, 1, n) = priority_columns
            /\ Range(other) = keys \ Range(priority_columns)
            /\ \A i, j \in 1..Len(other) :
                    i < j => IndexIn(LexOrder, other[i]) < IndexIn(LexOrder, other[j])
            /\ \A i \in 1..Len(ranked) :
                    /\ DOMAIN csv.rows[i] = Range(csv.header)
                    /\ csv.rows[i]["rank"] = Num(i)
                    /\ \A k \in DOMAIN ranked[i][2] :
                            csv.rows[i][k] =
                                IF ranked[i][2][k] = None THEN Empty ELSE ranked[i][2][k]
\* two candidates with two keys outside the priority list have been written
C18_Witness ==
    /\ pc \in {"md", "done", "crash"}
    /\ ranked # <<>>
    /\ Len(ranked) >= 2
    /\ Len(csv.header) >= Len(priority_columns) + 2
    /\ Len(csv.rows) = Len(ranked)

\* C19: for a listed directory {design_id}_mpnn_{number} with a protenix/
\* subdirectory, every file {stem}_confidence.json of it has a record under
\* design_id whose key is the directory name, "_" and that stem.
C19_ProtenixIdentity ==
    \A i \in 1..Len(listed) :
        LET e == listed[i]
        IN  (e[1] = "s3" /\ e[3][1] \in Digits /\ e[3][2]) =>
                \A j \in 1..Len(e[3][3]) :
                    LET protenix_name == e[2] \o <<U, "mpnn", U, e[3][1]>>
                        key == protenix_name \o <<U>> \o e[3][3][j].m
                    IN  /\ Has(all_metrics, e[2])
                        /\ Has(all_metrics.val[e[2]], key)
\* the same for the stems that do not contain "_confidence" themselves
ProtenixIdentityPlainStem ==
    \A i \in 1..Len(listed) :
        LET e == listed[i]
        IN  (e[1] = "s3" /\ e[3][1] \in Digits /\ e[3][2]) =>
                \A j \in 1..Len(e[3][3]) :
                    LET protenix_name == e[2] \o <<U, "mpnn", U, e[3][1]>>
                        key == protenix_name \o <<U>> \o e[3][3][j].m
                    IN  Replace(e[3][3][j].m, <<U, "confidence">>) = e[3][3][j].m =>
                            /\ Has(all_metrics, e[2])
                            /\ Has(all_metrics.val[e[2]], key)

---------------------------------------------------------------------------
(* Properties of the parsers (SpecParse) *)

Returned(tool) == pc = "returned" /\ artifact[1] = tool
Failed(f) == ~f.exists \/ ~f.readable
Null(metrics, k) == k \notin DOMAIN metrics \/ metrics[k] = None
\* the keys of a row of cells whose cell is not a number
NotNumeric(cells) == {k \in DOMAIN cells : ~IsNum(cells[k])}

\* The metrics an artifact gives no usable value for: all of them when the
\* file is missing, unreadable or empty, else those whose field is missing or
\* is no number.  The counters foldseek_num_hits and mpnn_num_sequences are
\* counts of what was read and are left out.
AffectedIpsae(f) ==
    LET idx == {i \in 1..Len(f.lines) : f.lines[i] # Absent}
        first == CHOOSE i \in idx : \A j \in idx : i <= j
    IN  IF Failed(f) \/ idx = {} \/ ~IsNum(f.lines[first]) THEN {"ipsae_score"} ELSE {}
AffectedProdigy(f) ==
    LET row == f.rows[1]
    IN  IF Failed(f) \/ f.rows = <<>>
        THEN {"buried_surface_area", "num_interface_contacts",
              "predicted_binding_affinity", "predicted_kd"}
        ELSE (IF IsNum(ToFloat(row.buried_surface_area_A2)) THEN {}
              ELSE {"buried_surface_area"})
             \cup (IF IsNum(ToInt(row.num_interface_contacts)) THEN {}
                   ELSE {"num_interface_contacts"})
             \cup (IF IsNum(ToFloat(row.predicted_binding_affinity_kcal_mol)) THEN {}
                   ELSE {"predicted_binding_affinity"})
             \cup (IF IsNum(ToFloat(row.predicted_kd_M)) THEN {} ELSE {"predicted_kd"})
AffectedFoldseek(f) ==
    IF Failed(f) \/ Len(f.lines) < 2
    THEN {"foldseek_top_hit", "foldseek_top_evalue", "foldseek_top_bits"}
    ELSE IF ~f.lines[2].fields12
         THEN {"foldseek_top_hit", "foldseek_top_evalue", "foldseek_top_bits"}
         ELSE (IF IsNum(f.lines[2].evalue) THEN {} ELSE {"foldseek_top_evalue"})
              \cup (IF IsNum(f.lines[2].bits) THEN {} ELSE {"foldseek_top_bits"})
AffectedAggregate(f) ==
    IF Failed(f) \/ f.rows = <<>> THEN {"aggregate_plddt", "aggregate_iptm"}
    ELSE {"aggregate_" \o c : c \in NotNumeric(f.rows[1])}
AffectedPerTarget(f) ==
    UNION {IF Failed(f) \/ \A i \in 1..Len(f.rows) : ~IsNum(f.rows[i][c])
           THEN {"per_target_" \o c \o s : s \in {"_avg", "_min", "_max"}}
           ELSE {} : c \in {"plddt", "iptm"}}
AffectedMpnn(f) ==
    LET H == {f.headers[i] : i \in 1..Len(f.headers)}
        bad(field) == Failed(f) \/ (\E h \in H : h[field] = Str)
                      \/ (\A h \in H : ~IsNum(h[field]))
    IN  (IF bad("score") THEN {"mpnn_score"} ELSE {})
        \cup (IF bad("global_score") THEN {"mpnn_global_score"} ELSE {})
        \cup (IF bad("seq_recovery") THEN {"mpnn_seq_recovery"} ELSE {})
AffectedProtenix(f) ==
    LET d == f.data
        rs == IF d.ranking_score # Absent THEN d.ranking_score ELSE d.score
    IN  IF Failed(f) \/ ~f.parses
        THEN {"protenix_plddt", "protenix_ptm", "protenix_iptm", "protenix_ranking_score"}
        ELSE (IF IsNum(d.plddt) \/ (d.plddt[1] = "list" /\ d.plddt[2] # <<>>)
              THEN {} ELSE {"protenix_plddt"})
             \cup (IF IsNum(d.ptm) THEN {} ELSE {"protenix_ptm"})
             \cup (IF IsNum(d.iptm) THEN {} ELSE {"protenix_iptm"})
             \cup (IF IsNum(rs) THEN {} ELSE {"protenix_ranking_score"})
\* the key of the mapping a key of a Boltzgen JSON file is stored under
BoltzgenKey == [model_confidence |-> "model_confidence", plddt |-> "plddt_avg",
                ptm |-> "ptm_score"]
AffectedBoltzgen(dir) ==
    {BoltzgenKey[k] : k \in {j \in DOMAIN BoltzgenKey :
        \A i \in 1..Len(dir.json_files) :
            ~dir.json_files[i].parses \/ ~IsNum(dir.json_files[i].data[j])}}
Affected(a) ==
    CASE a[1] = "ipsae" -> AffectedIpsae(a[2])
      [] a[1] = "prodigy" -> AffectedProdigy(a[2])
      [] a[1] = "foldseek" -> AffectedFoldseek(a[2])
      [] a[1] = "aggregate" -> AffectedAggregate(a[2])
      [] a[1] = "per_target" -> AffectedPerTarget(a[2])
      [] a[1] = "mpnn" -> AffectedMpnn(a[2])
      [] a[1] = "protenix" -> AffectedProtenix(a[2])
      [] a[1] = "boltzgen" -> AffectedBoltzgen(a[2])

\* C14: every parser returns to its caller without raising, and in the mapping
\* it returns every metric the artifact gives no usable value for is null.
C14_AffectedMetricsNull ==
    pc = "returned" =>
        /\ ~result.raised
        /\ \A k \in Affected(artifact) : Null(result.metrics, k)

\* C14 (as amended): every parser returns to its caller without raising, and
\* every metric the artifact gives no usable value for is null in the mapping
\* returned, except that parse_aggregate_metrics_csv keeps a cell that is no
\* number as the text it read.
C14_ParsersReturn ==
    pc = "returned" =>
        /\ ~result.raised
        /\ \A k \in Affected(artifact) :
              \/ Null(result.metrics, k)
              \/ artifact[1] = "aggregate" /\ result.metrics[k] = Str
\* a parser has caught an exception half way: it warned, one metric is null
\* and another has the number read before the failure
C14_Witness ==
    /\ pc = "returned"
    /\ result.warned
    /\ Affected(artifact) # {}
    /\ \E k \in DOMAIN result.metrics \ Affected(artifact) : IsNum(result.metrics[k])

IsParsed(file, k) == file.parses /\ IsNum(file.data[k])
\* C20: when parse_boltzgen_predictions returns, each key holds the value of
\* the last processed file that parses and has a number under that key, and is
\* null when there is no such file.
C20_LastFileWins ==
    Returned("boltzgen") =>
        \A k \in DOMAIN BoltzgenKey :
            LET has == {i \in 1..Len(listed) : IsParsed(listed[i], k)}
                last == CHOOSE i \in has : \A j \in has : j <= i
            IN  result.metrics[BoltzgenKey[k]] =
                    IF has = {} THEN None ELSE listed[last].data[k]

\* the values of one field over the headers of a file, in header order
RECURSIVE FieldValues(_, _)
FieldValues(headers, k) ==
    IF headers = <<>> THEN <<>>
    ELSE (IF IsNum(Head(headers)[k]) THEN <<Head(headers)[k][2]>> ELSE <<>>)
         \o FieldValues(Tail(headers), k)
\* every field of every header is a number or is missing
AllNumeric(headers) ==
    \A i \in 1..Len(headers) : \A k \in DOMAIN headers[i] :
        headers[i][k] = Absent \/ IsNum(headers[i][k])

LeqVal(a, b) ==
    LET n(x) == x[2]
        d(x) == IF x[1] = "num" THEN 1 ELSE x[3]
    IN  n(a) * d(b) <= n(b) * d(a)

\* C23: parse_aggregate_metrics_csv takes the first data row only and stores
\* each column under aggregate_<column>, a number when the cell is numeric and
\* the cell unchanged otherwise; parse_per_target_metrics_csv gives for each
\* column the mean, minimum and maximum over exactly the rows that are numeric
\* in that column, with min <= avg <= max, and no entry for a column without a
\* numeric value.
C23_BoltzgenCsvSummaries ==
    /\ (Returned("aggregate") /\ ~Failed(artifact[2]) /\ artifact[2].rows # <<>>) =>
          LET row == artifact[2].rows[1]
          IN  /\ DOMAIN result.metrics = {"aggregate_" \o c : c \in DOMAIN row}
              /\ \A c \in DOMAIN row : result.metrics["aggregate_" \o c] = row[c]
    /\ (Returned("per_target") /\ ~Failed(artifact[2]) /\ artifact[2].rows # <<>>) =>
          \A c \in DOMAIN artifact[2].rows[1] :
              LET values == FieldValues(artifact[2].rows, c)
                  avg == "per_target_" \o c \o "_avg"
                  min == "per_target_" \o c \o "_min"
                  max == "per_target_" \o c \o "_max"
              IN  IF values = <<>>
                  THEN {avg, min, max} \cap DOMAIN result.metrics = {}
                  ELSE /\ {avg, min, max} \subseteq DOMAIN result.metrics
                       /\ result.metrics[min] = Num(SeqMin(values))
                       /\ result.metrics[max] = Num(SeqMax(values))
                       /\ result.metrics[avg] = Mean(values)
                       /\ LeqVal(result.metrics[min], result.metrics[avg])
                       /\ LeqVal(result.metrics[avg], result.metrics[max])
\* the same without the order of the three values: it holds
BoltzgenCsvSummariesUnordered ==
    /\ (Returned("aggregate") /\ ~Failed(artifact[2]) /\ artifact[2].rows # <<>>) =>
          LET row == artifact[2].rows[1]
          IN  /\ DOMAIN result.metrics = {"aggregate_" \o c : c \in DOMAIN row}
              /\ \A c \in DOMAIN row : result.metrics["aggregate_" \o c] = row[c]
    /\ (Returned("per_target") /\ ~Failed(artifact[2]) /\ artifact[2].rows # <<>>) =>
          \A c \in DOMAIN artifact[2].rows[1] :
              LET values == FieldValues(artifact[2].rows, c)
                  avg == "per_target_" \o c \o "_avg"
                  min == "per_target_" \o c \o "_min"
                  max == "per_target_" \o c \o "_max"
              IN  IF values = <<>>
                  THEN {avg, min, max} \cap DOMAIN result.metrics = {}
                  ELSE /\ {avg, min, max} \subseteq DOMAIN result.metrics
                       /\ result.metrics[min] = Num(SeqMin(values))
                       /\ result.metrics[max] = Num(SeqMax(values))
                       /\ result.metrics[avg] = Mean(values)

\* the four columns parse_prodigy_csv reads and the key each is returned under
ProdigyKey ==
    [buried_surface_area_A2 |-> "buried_surface_area",
     num_interface_contacts |-> "num_interface_contacts",
     predicted_binding_affinity_kcal_mol |-> "predicted_binding_affinity",
     predicted_kd_M |-> "predicted_kd"]
\* the cell is text that the conversion of its column raises on
Unreadable(row, c) ==
    \/ row[c] = Str
    \/ c = "num_interface_contacts" /\ row[c][1] = "decimal"

\* C22: parse_prodigy_csv reads only the first data row and returns exactly
\* the four fields buried_surface_area, num_interface_contacts,
\* predicted_binding_affinity and predicted_kd, each from its column; an empty
\* or absent column gives null, and no other metric is returned.
C22_ProdigyFirstRow ==
    Returned("prodigy") =>
        LET f == artifact[2]
            m == result.metrics
        IN  /\ DOMAIN m = {ProdigyKey[c] : c \in DOMAIN ProdigyKey}
            /\ (Failed(f) \/ f.rows = <<>>) => \A k \in DOMAIN m : m[k] = None
            /\ (~Failed(f) /\ f.rows # <<>>) =>
                  \A c \in DOMAIN ProdigyKey :
                      LET cell == f.rows[1][c]
                      IN  /\ cell \in {Absent, Blank} => m[ProdigyKey[c]] = None
                          /\ (cell[1] \in {"digits", "decimal"}
                              /\ \A c2 \in DOMAIN ProdigyKey : ~Unreadable(f.rows[1], c2))
                                 => m[ProdigyKey[c]] = Num(cell[2])
\* a file of two rows whose first row has no surface area: the area is null
\* and the contacts are those of the first row
C22_Witness ==
    /\ Returned("prodigy")
    /\ ~Failed(artifact[2])
    /\ Len(artifact[2].rows) = 2
    /\ artifact[2].rows[1].buried_surface_area_A2 = Absent
    /\ artifact[2].rows[1].num_interface_contacts = IntLit(1)
    /\ artifact[2].rows[2].num_interface_contacts = IntLit(2)
    /\ result.metrics.buried_surface_area = None
    /\ result.metrics.num_interface_contacts = Num(1)

\* the number a typed value stands for: 87 == 87.0 in Python
ValueOf(x) == IF x = None THEN None ELSE Num(x[2])

\* C26: a mapping that parse_prodigy_output returns, written by
\* write_csv_summary and read back by parse_prodigy_csv, comes back with the
\* same four values; a null stays null.
C26_ProdigyRoundTrip ==
    (Returned("prodigy") /\ parsed # <<>>) =>
        /\ ~result.warned
        /\ \A k \in DOMAIN result.metrics : result.metrics[k] = ValueOf(parsed[k])
\* a round trip with a null, a zero and a negative number
C26_Witness ==
    /\ Returned("prodigy")
    /\ parsed # <<>>
    /\ parsed.buried_surface_area = None
    /\ parsed.num_interface_contacts = PyInt(0)
    /\ parsed.predicted_binding_affinity = PyFloat(0 - 1)
    /\ result.metrics.buried_surface_area = None
    /\ result.metrics.num_interface_contacts = Num(0)
    /\ result.metrics.predicted_binding_affinity = Num(0 - 1)

---------------------------------------------------------------------------
(* Properties of the markdown report *)

\* the positions of the ranking whose candidate has a value other than None
\* under key k
NonNull(k) == {i \in 1..Len(ranked) : k \in DOMAIN ranked[i][2] /\ ranked[i][2][k] # None}

\* C24: write_markdown_report writes minimum, maximum and mean of a metric
\* family (IPSAE, binding affinity, buried surface area) exactly when some
\* candidate has a non-null value for it, computed over exactly the non-null
\* values; the top table has at most top_n rows, and they are the first
\* candidates of the ranked order.
C24_StatsAndTopTable ==
    (pc \in {"done", "crash"} /\ md.written /\ ranked # <<>>) =>
        /\ \A k \in StatKeys :
              LET at == NonNull(k)
                  st == md.stats[k]
              IN  /\ st = <<>> <=> at = {}
                  /\ at # {} =>
                        /\ st.n = Cardinality(at)
                        /\ \E i \in at : ranked[i][2][k] = Num(st.min)
                        /\ \E i \in at : ranked[i][2][k] = Num(st.max)
                        /\ \A i \in at : /\ st.min <= ranked[i][2][k][2]
                                         /\ ranked[i][2][k][2] <= st.max
                        /\ st.sum = SeqSum([i \in 1..Len(ranked) |->
                                       IF i \in at THEN ranked[i][2][k][2] ELSE 0])
        /\ Len(md.rows) <= md.top_n
        /\ Len(md.rows) <= Len(ranked)
        /\ md.complete => Len(md.rows) \in {md.top_n, Len(ranked)}
        /\ \A i \in 1..Len(md.rows) :
              /\ md.rows[i].rank = i
              /\ md.rows[i].score = ranked[i][3]
              /\ md.rows[i] = MdRow(ranked, i)
\* more candidates than top_n; one family with two different values and
\* another family without any value
C24_Witness ==
    /\ pc = "done"
    /\ md.complete
    /\ Len(ranked) > md.top_n
    /\ Len(md.rows) = md.top_n
    /\ \E k \in StatKeys : md.stats[k] # <<>> /\ md.stats[k].n = 2
                           /\ md.stats[k].min < md.stats[k].max
    /\ \E k \in StatKeys : md.stats[k] = <<>>

\* C27: in write_markdown_report a metric that is present with the value zero
\* is treated like any other non-null value: its table cell shows the number,
\* never 'N/A', and the recommendations assess it; 'N/A' stands only for a
\* null or absent metric.
C27_ZeroIsAValue ==
    (pc \in {"done", "crash"} /\ md.written /\ ranked # <<>>) =>
        /\ \A i \in 1..Len(md.rows) : \A k \in TableKeys :
              md.rows[i].cells[k] = NA
                  <=> (k \notin DOMAIN ranked[i][2] \/ ranked[i][2][k] = None)
        /\ md.complete =>
              \A k \in RecommendationKeys :
                  (k \in DOMAIN ranked[1][2] /\ ranked[1][2][k] # None) => k \in md.assessed
\* the same for metrics that are not zero: it holds
NonZeroIsAValue ==
    (pc \in {"done", "crash"} /\ md.written /\ ranked # <<>>) =>
        /\ \A i \in 1..Len(md.rows) : \A k \in TableKeys :
              (k \notin DOMAIN ranked[i][2] \/ ranked[i][2][k] # Num(0)) =>
                  (md.rows[i].cells[k] = NA
                      <=> (k \notin DOMAIN ranked[i][2] \/ ranked[i][2][k] = None))
        /\ md.complete =>
              \A k \in RecommendationKeys :
                  (k \in DOMAIN ranked[1][2] /\ ranked[1][2][k] \notin {None, Num(0)})
                      => k \in md.assessed

---------------------------------------------------------------------------
(* Properties of the scoring as a change of the candidates *)

AddedKeys == {"_score_components", "_metrics_used", "composite_score"}
\* rank_designs on the candidates as they are after the step
RankedAgain ==
    SortDesc(<<>>, [i \in 1..Len(flattened'.keys) |->
                       RankedItem(flattened'.keys[i], flattened'.val[flattened'.keys[i]])])

\* C30: calculate_composite_score and rank_designs leave every metric key and
\* value a candidate had unchanged and add only _score_components,
\* _metrics_used and composite_score, so that ranking the same candidates a
\* second time gives the same scores and the same order.
C30_RankingKeepsMetrics ==
    [][(pc = "rank" /\ pc' = "csv") =>
          /\ flattened'.keys = flattened.keys
          /\ \A id \in DOMAIN flattened.val :
                LET old == flattened.val[id]
                    new == flattened'.val[id]
                IN  /\ DOMAIN new = DOMAIN old \cup AddedKeys
                    /\ \A k \in DOMAIN old : new[k] = old[k]
          /\ RankedAgain = ranked'
          /\ \A i \in 1..Len(ranked') : ranked'[i][2] = flattened'.val[ranked'[i][1]]
      ]_vars
\* three candidates have been ranked, the order has changed, and a metric that
\* contributed to the score is still there
C30_Witness ==
    /\ pc = "csv"
    /\ Len(ranked) = 3
    /\ ranked[1][1] # flattened.keys[1]
    /\ ScoreLess(ranked[3][3], ranked[1][3])
    /\ \E i \in 1..3 : /\ ranked[i][2]["_metrics_used"] = Num(2)
                       /\ ranked[i][2]["mpnn_seq_recovery"] = Num(1)

---------------------------------------------------------------------------
(* Properties of extract_target_sequence.py (SpecParse) *)

\* the second column of the struct_asym rows for chain c, and the residues of
\* the entity_poly_seq rows of entity e, in file order
EntityOf(c) ==
    LET rows == SelectSeq(AsymBlock, LAMBDA l : l[1] = "row" /\ l[2][1] = c)
    IN  rows[1][2][2]
RECURSIVE Residues(_, _)
Residues(lines, e) ==
    IF lines = <<>> THEN <<>>
    ELSE (IF Head(lines)[1] = "row" /\ Head(lines)[2][1] = e
          THEN <<aa_map[Head(lines)[2][3]]>> ELSE <<>>) \o Residues(Tail(lines), e)
HasBlock(f, b) == \E i \in 1..Len(f.blocks) : f.blocks[i] = b

\* C25: parse_cif_sequences takes the chain-to-entity rows from the
\* _struct_asym category only and one residue from every _entity_poly_seq
\* row, whichever of the two categories comes first and whatever categories
\* follow: the result maps each chain to the full sequence of its entity.
C25_ChainSequences ==
    (pc = "sequences" /\ artifact[2].readable
     /\ HasBlock(artifact[2], "asym") /\ HasBlock(artifact[2], "seq")) =>
        /\ DOMAIN result.val = {"A", "B"}
        /\ \A c \in {"A", "B"} : result.val[c] = Residues(SeqBlock, EntityOf(c))
\* the one layout the code reads as the claim says: entity_poly_seq, then
\* struct_asym as the last category of the file
SeqThenAsymLast ==
    (pc = "sequences" /\ artifact[2].readable
     /\ HasBlock(artifact[2], "asym") /\ HasBlock(artifact[2], "seq")
     /\ artifact[2].blocks[Len(artifact[2].blocks)] = "asym") =>
        /\ DOMAIN result.val = {"A", "B"}
        /\ \A c \in {"A", "B"} : result.val[c] = Residues(SeqBlock, EntityOf(c))

\* C28: identify_target_chain returns a longest chain among the chains other
\* than designed_chain; the designed chain itself when it is the only chain;
\* a longest chain of all when designed_chain is not given or is not among
\* the chains; and (None, None) for an empty mapping.
C28_TargetChain ==
    pc = "target" =>
        LET s == artifact[2].sequences
            d == artifact[2].designed_chain
            chains == DOMAIN s.val
            named == d \notin {None, Text("")} /\ d[2] \in chains
            pool == IF named /\ chains # {d[2]} THEN chains \ {d[2]} ELSE chains
        IN  IF chains = {} THEN result = <<None, None>>
            ELSE /\ result[1] \in pool
                 /\ result[2] = s.val[result[1]]
                 /\ \A c \in pool : Len(s.val[c]) <= Len(result[2])
                 /\ (named /\ chains = {d[2]}) => result[1] = d[2]
\* the designed chain is the longest one, and another chain is returned
C28_Witness ==
    /\ pc = "target"
    /\ artifact[2].designed_chain = Text("A")
    /\ artifact[2].sequences.keys = <<"A", "B", "C">>
    /\ Len(artifact[2].sequences.val["A"]) = 2
    /\ Len(artifact[2].sequences.val["B"]) = 1
    /\ Len(artifact[2].sequences.val["C"]) = 1
    /\ result[1] = "B"

---------------------------------------------------------------------------
(* Properties of convert_protenix_to_npz.py (SpecParse) *)

\* the JSON value is a list of r lists of r numbers
SquareRows(v) == v # None /\ v[1] = "rows" /\ v[2] = v[3]
\* the JSON value becomes a 2-D array with as many rows as columns
TwoDSquare(v) == SquareRows(v) \/ v = TextRows

\* C29: convert_protenix_to_ipsae writes the NPZ file (key
\* predicted_aligned_error) only when a PAE matrix is found and is
\* two-dimensional and square; when the input cannot be read or parsed, no
\* matrix is found or the validation fails, the run ends with exit status 1
\* and writes no output.
C29_NpzOnlyForSquareMatrix ==
    (pc = "exit" /\ artifact[1] = "json") =>
        LET f == artifact[2]
            found == FoundValue(f.data)
        IN  /\ result.written # Absent =>
                  /\ f.state = "ok"
                  /\ SquareRows(found)
                  /\ Of(result.written) = found
                  /\ Ndim(result.written) = 2
                  /\ Shape(result.written)[1] = Shape(result.written)[2]
            /\ (f.state # "ok" \/ found = None \/ ~TwoDSquare(found)) =>
                  (result.status = 1 /\ result.written = Absent)
\* the matrix under confidence -> pae has been written, and the run ended
\* with status 0
C29_Witness ==
    /\ pc = "exit"
    /\ artifact[1] = "json"
    /\ "pae" \notin DOMAIN artifact[2].data[2]
    /\ result.status = 0
    /\ result.written # Absent
    /\ Of(result.written) = Matrix(2, 2, "confidence")

====
